---- MODULE Spec2Model ----
(***************************************************************************)
(* The human-intervention stores of the legal assistant:                   *)
(*   ApprovalManager  (Project/human_intervention/approval_manager.py)     *)
(*   FeedbackHandler  (Project/human_intervention/feedback_handler.py)     *)
(*                                                                         *)
(* Encoding of Python values:                                              *)
(*   - an Optional value is None (the empty tuple) or Some(v) (<<v>>);     *)
(*   - a dict record is a function from key names to values, so a key that *)
(*     was never assigned is absent from its DOMAIN;                       *)
(*   - a store (a dict keyed by the record's own 'id') is the sequence of  *)
(*     its values in insertion order, which is the order Python iterates;  *)
(*   - datetime.now() is the integer clock `now`, counted in ticks;        *)
(*     strftime('%Y%m%d%H%M%S') keeps the whole second of it;              *)
(*   - an f-string id is the tuple of the values it formats: the timestamp *)
(*     part has a fixed width and the integer part has no underscore, so   *)
(*     the formatted text determines the tuple and conversely.             *)
(***************************************************************************)
EXTENDS Integers, Sequences, FiniteSets, TLC

\* ------------------------------------------------------------- bounds
\* Number of store-changing calls in a run.
MaxCalls == 3
\* Number of submit_feedback calls in a run.
MaxSubmissions == 3
\* Last tick of the clock.
MaxTime == 2
\* Clock ticks in one second of wall time.
TicksPerSecond == 2
\* Number of rows the orchestrator writes in a run.
MaxWrites == 2

\* ------------------------------------------------------------- inputs
ApprovalTypes == {"document"}
Contents == {"draft text"}
Metadatas == {"meta"}
Requesters == {0, 1}
Approvers == {7}
Reasons == {"wrong clause"}

VARIABLES
    now,                \* the wall clock, in ticks
    pending_approvals,  \* ApprovalManager.pending_approvals
    feedback_store,     \* FeedbackHandler.feedback_store
    feedback_counter,   \* FeedbackHandler.feedback_counter
    call,               \* the last call made and what its caller got back
    ncalls,             \* store-changing calls made so far
    db,                 \* the tables of the SQLite file behind utils.database.db
    events,             \* the database and agent calls of the last orchestrator call
    threads             \* where each thread is in the call it runs, and its locals

vars == <<now, pending_approvals, feedback_store, feedback_counter, call, ncalls,
          db, events, threads>>

\* ------------------------------------------------------------- Python values
None == <<>>
Some(v) == <<v>>

NoException == "none"

\* bool(x) of an Optional[str]: None and '' are false.
TruthyStr(x) == x # None /\ x[1] # ""

\* bool(x) of an Optional[int]: None and 0 are false.
TruthyInt(x) == x # None /\ x[1] # 0

Min(a, b) == IF a <= b THEN a ELSE b

\* strftime('%Y%m%d%H%M%S'): the clock cut to whole seconds.
Second(t) == t \div TicksPerSecond

\* record[key] = value on a dict record.
SetItem(r, k, v) == [x \in DOMAIN r \cup {k} |-> IF x = k THEN v ELSE r[x]]

\* The keys of a store.
DictKeys(d) == {d[i].id : i \in 1..Len(d)}

\* store[key]
DictGet(d, k) == d[CHOOSE i \in 1..Len(d) : d[i].id = k]

\* store[key] = value: an existing key keeps its place, a new one goes last.
DictSet(d, k, v) ==
    IF k \in DictKeys(d)
    THEN [d EXCEPT ![CHOOSE i \in 1..Len(d) : d[i].id = k] = v]
    ELSE Append(d, v)

\* Mutant: the sort without reverse=True, x after every element whose key is
\* at most x's key.
RECURSIVE InsertAscending(_, _, _)
InsertAscending(sorted, x, k) ==
    IF sorted = <<>> THEN <<x>>
    ELSE IF Head(sorted)[k] <= x[k]
         THEN <<Head(sorted)>> \o InsertAscending(Tail(sorted), x, k)
         ELSE <<x>> \o sorted

\* One step of a stable descending sort: x goes after every element whose
\* key is at least x's key.
RECURSIVE InsertDescending(_, _, _)
InsertDescending(sorted, x, k) ==
    IF sorted = <<>> THEN <<x>>
    ELSE IF Head(sorted)[k] >= x[k]
         THEN <<Head(sorted)>> \o InsertDescending(Tail(sorted), x, k)
         ELSE <<x>> \o sorted

\* sorted(xs, key=lambda x: x[k], reverse=True): stable, equal keys keep
\* the order they had in xs.
RECURSIVE SortedDescending(_, _)
SortedDescending(xs, k) ==
    IF xs = <<>> THEN <<>>
    ELSE InsertDescending(SortedDescending(SubSeq(xs, 1, Len(xs) - 1), k),
                          xs[Len(xs)], k)

\* ------------------------------------------------------------- ApprovalManager
\* f"{approval_type}_{now:%Y%m%d%H%M%S}_{requester_id}"
ApprovalId(approval_type, t, requester_id) ==
    <<approval_type, Second(t), requester_id>>

\* An id no request_approval call of the run returns.
UnknownApprovalId == <<"unknown", 0, 0>>

\* Mutant: a request that is stamped as decided when it is created.
ApprovalRequestStamped(approval_id, approval_type, content, metadata, requester_id, t) ==
    [id |-> approval_id,
     type |-> approval_type,
     content |-> content,
     metadata |-> metadata,
     requester_id |-> requester_id,
     status |-> "pending",
     created_at |-> t,
     approved_by |-> None,
     approved_at |-> Some(t),
     comments |-> None]

\* The dict request_approval builds.
ApprovalRequest(approval_id, approval_type, content, metadata, requester_id, t) ==
    [id |-> approval_id,
     type |-> approval_type,
     content |-> content,
     metadata |-> metadata,
     requester_id |-> requester_id,
     status |-> "pending",
     created_at |-> t,
     approved_by |-> None,
     approved_at |-> None,
     comments |-> None]

\* The assignments approve makes to the stored dict.
ApproveRecord(approval, approver_id, t, comments, modifications) ==
    LET a == [approval EXCEPT !.status = "approved",
                              !.approved_by = Some(approver_id),
                              !.approved_at = Some(t),
                              !.comments = comments]
    IN  IF TruthyStr(modifications)
        THEN SetItem(SetItem(a, "modified_content", modifications),
                     "content_modified", TRUE)
        ELSE SetItem(a, "content_modified", FALSE)

\* The assignments reject makes to the stored dict.
RejectRecord(approval, approver_id, t, reason) ==
    SetItem([approval EXCEPT !.status = "rejected",
                             !.approved_by = Some(approver_id),
                             !.approved_at = Some(t)],
            "rejection_reason", reason)

IsPending(a) == a.status = "pending"

get_pending_approvals(self, requester_id) ==
    LET pending == SelectSeq(self, IsPending)
        OfRequester(a) == a.requester_id = requester_id[1]
    IN  IF TruthyInt(requester_id) THEN SelectSeq(pending, OfRequester) ELSE pending

get_approval_status(self, approval_id) ==
    IF approval_id \notin DictKeys(self)
    THEN "not_found"
    ELSE DictGet(self, approval_id).status

get_approval_history(self, requester_id) ==
    LET OfRequester(a) == a.requester_id = requester_id
    IN  SortedDescending(SelectSeq(self, OfRequester), "created_at")

\* ------------------------------------------------------------- FeedbackHandler
\* Mutant: an id built from the timestamp alone.
FeedbackIdWithoutCounter(counter, t) == <<0, Second(t)>>

\* f"feedback_{self.feedback_counter}_{now:%Y%m%d%H%M%S}"
FeedbackId(counter, t) == <<counter, Second(t)>>

\* An id no submit_feedback call of the run returns.
UnknownFeedbackId == <<0, 0>>

\* specific_issues or []
OrEmptyList(x) == IF x = None \/ x[1] = <<>> THEN <<>> ELSE x[1]

\* Mutant: the lower limit of the rating check off by one.
RatingRejectedBelowZero(rating) == rating < 0 \/ rating > 5

\* The check submit_feedback makes on the rating before it raises.
RatingRejected(rating) == rating < 1 \/ rating > 5

\* The dict submit_feedback builds.
Feedback(feedback_id, content_id, content_type, user_id, rating, comments, specific_issues, t) ==
    [id |-> feedback_id,
     content_id |-> content_id,
     content_type |-> content_type,
     user_id |-> user_id,
     rating |-> rating,
     comments |-> comments,
     specific_issues |-> OrEmptyList(specific_issues),
     submitted_at |-> t,
     addressed |-> FALSE,
     follow_up |-> None]

get_feedback(self, feedback_id) ==
    IF feedback_id \in DictKeys(self)
    THEN Some(DictGet(self, feedback_id))
    ELSE None

get_content_feedback(self, content_id) ==
    LET OfContent(f) == f.content_id = content_id
    IN  SortedDescending(SelectSeq(self, OfContent), "submitted_at")

get_user_feedback(self, user_id) ==
    LET OfUser(f) == f.user_id = user_id
    IN  SortedDescending(SelectSeq(self, OfUser), "submitted_at")

get_feedback_by_type(self, content_type) ==
    LET OfType(f) == f.content_type = content_type
    IN  SortedDescending(SelectSeq(self, OfType), "submitted_at")

\* The elements of a list, as a set.
Range(xs) == {xs[i] : i \in 1..Len(xs)}

RECURSIVE Sum(_)
Sum(xs) == IF xs = <<>> THEN 0 ELSE Head(xs) + Sum(Tail(xs))

\* xs.count(x)
Count(xs, x) == Cardinality({i \in 1..Len(xs) : xs[i] = x})

\* [f[k] for f in xs]
RECURSIVE Column(_, _)
Column(xs, k) == IF xs = <<>> THEN <<>> ELSE <<Head(xs)[k]>> \o Column(Tail(xs), k)

\* The lists f[k] of the records f of xs, one after the other.
RECURSIVE Extended(_, _)
Extended(xs, k) == IF xs = <<>> THEN <<>> ELSE Head(xs)[k] \o Extended(Tail(xs), k)

\* Mutant: the quotient cut to a whole number.
RatioFloor(n, d) == [num |-> n \div d, den |-> 1]

\* n / d and n / d * 100 of Python floats, kept as the exact fraction.
Ratio(n, d) == [num |-> n, den |-> d]
Percent(n, d) == [num |-> n * 100, den |-> d]

\* One step of a stable ascending sort: x goes after every element whose key
\* is at most x's key.
RECURSIVE InsertSorted(_, _, _)
InsertSorted(sorted, x, k) ==
    IF sorted = <<>> THEN <<x>>
    ELSE IF Head(sorted)[k] <= x[k]
         THEN <<Head(sorted)>> \o InsertSorted(Tail(sorted), x, k)
         ELSE <<x>> \o sorted

\* sorted(xs, key=lambda x: x[k]): stable.
RECURSIVE SortedAscending(_, _)
SortedAscending(xs, k) ==
    IF xs = <<>> THEN <<>>
    ELSE InsertSorted(SortedAscending(SubSeq(xs, 1, Len(xs) - 1), k),
                      xs[Len(xs)], k)

\* Mutant: records rated exactly the threshold are kept.
GetLowRatedInclusive(self, threshold) ==
    LET AtMost(f) == f.rating <= threshold
    IN  SortedAscending(SelectSeq(self, AtMost), "rating")

get_low_rated_content(self, threshold) ==
    LET Below(f) == f.rating < threshold
    IN  SortedAscending(SelectSeq(self, Below), "rating")

\* The length of the slice [:5] of most_common_issues and improvement areas.
TopN == 5

\* Mutant: the list without the slice.
WholeList(xs, n) == xs

\* xs[:n]
Prefix(xs, n) == SubSeq(xs, 1, Min(n, Len(xs)))

\* issue_counts.items(): one (issue, count) pair for each issue of all_issues,
\* in the order of first occurrence.
RECURSIVE IssueCounts(_, _)
IssueCounts(all_issues, counted) ==
    IF all_issues = <<>> THEN counted
    ELSE LET issue == Head(all_issues)
             at == {i \in 1..Len(counted) : counted[i][1] = issue}
         IN  IssueCounts(Tail(all_issues),
                 IF at = {}
                 THEN Append(counted, <<issue, 1>>)
                 ELSE LET i == CHOOSE j \in at : TRUE
                      IN  [counted EXCEPT ![i] = <<issue, counted[i][2] + 1>>])

\* The records get_feedback_summary counts.
SummaryScope(self, content_type) ==
    LET OfType(f) == f.content_type = content_type[1]
    IN  IF TruthyStr(content_type) THEN SelectSeq(self, OfType) ELSE self

get_feedback_summary(self, content_type) ==
    LET feedback_list == SummaryScope(self, content_type)
        ratings == Column(feedback_list, "rating")
        positive(r) == r >= 4
    IN  IF feedback_list = <<>>
        THEN [total_feedback |-> 0,
              average_rating |-> 0,
              rating_distribution |-> <<>>,
              most_common_issues |-> <<>>]
        ELSE [total_feedback |-> Len(feedback_list),
              average_rating |-> Ratio(Sum(ratings), Len(ratings)),
              rating_distribution |-> [i \in 1..5 |-> Count(ratings, i)],
              most_common_issues |->
                  Prefix(SortedDescending(
                      IssueCounts(Extended(feedback_list, "specific_issues"), <<>>),
                      2), TopN),
              percentage_positive |->
                  Percent(Len(SelectSeq(ratings, positive)), Len(ratings))]

\* Mutant: marking a record that is already addressed un-marks it.
AddressedToggled(feedback, follow_up, t) ==
    SetItem([feedback EXCEPT !.addressed = ~feedback.addressed,
                             !.follow_up = Some(follow_up)],
            "addressed_at", t)

\* The assignments mark_addressed makes to the stored dict.
AddressedRecord(feedback, follow_up, t) ==
    SetItem([feedback EXCEPT !.addressed = TRUE, !.follow_up = Some(follow_up)],
            "addressed_at", t)

\* The list `issues` identify_improvement_areas builds for a content type:
\* of every record rated 2 or less, newest first, its specific issues and then
\* its comments when they are not empty.
RECURSIVE CollectIssues(_)
CollectIssues(low_rated) ==
    IF low_rated = <<>> THEN <<>>
    ELSE LET f == Head(low_rated)
         IN  f.specific_issues
             \o (IF TruthyStr(f.comments) THEN <<f.comments[1]>> ELSE <<>>)
             \o CollectIssues(Tail(low_rated))

\* Mutant: records rated 3 count as low rated.
LowRatedUpToThree(self, content_type) ==
    LET Low(f) == f.rating <= 3
    IN  SelectSeq(get_feedback_by_type(self, content_type), Low)

LowRated(self, content_type) ==
    LET Low(f) == f.rating <= 2
    IN  SelectSeq(get_feedback_by_type(self, content_type), Low)

\* list(set(issues))[:5]: the set iterates in an order the hashes decide, so
\* the result is any list of min(5, n) different elements of it.
RECURSIVE SetPrefixes(_, _)
SetPrefixes(S, n) ==
    IF n = 0 \/ S = {} THEN {<<>>}
    ELSE UNION {{<<x>> \o xs : xs \in SetPrefixes(S \ {x}, n - 1)} : x \in S}

\* The dicts identify_improvement_areas can return for the content types of
\* `types`.
RECURSIVE ImprovementAreas(_, _)
ImprovementAreas(self, types) ==
    IF types = {} THEN {<<>>}
    ELSE LET content_type == CHOOSE ct \in types : TRUE
             rest == ImprovementAreas(self, types \ {content_type})
             low_rated == LowRated(self, content_type)
         IN  IF low_rated = <<>> THEN rest
             ELSE {SetItem(d, content_type, xs) :
                      d \in rest,
                      xs \in SetPrefixes(Range(CollectIssues(low_rated)), TopN)}

identify_improvement_areas(self) ==
    ImprovementAreas(self, Range(Column(self, "content_type")))

\* ------------------------------------------------------------- LegalDatabase
\* A table is the sequence of its rows in insertion order. A row is a dict of
\* its columns; a column holds None for NULL or Some(value), and the integer
\* key columns hold the integer.

\* d.get(k, default)
Get(d, k, default) == IF k \in DOMAIN d THEN d[k] ELSE default

\* A text of which the model keeps what it says and how many characters it
\* has, and text[:n].
Text(body, length) == [body |-> body, len |-> length]
Slice(text, n) == [text EXCEPT !.len = Min(text.len, n)]

\* The tables of a file in which nothing was inserted yet.
EmptyDatabase ==
    [lawyers |-> <<>>, cases |-> <<>>, legal_documents |-> <<>>,
     research_sessions |-> <<>>, analysis_results |-> <<>>]

\* INSERT INTO table: the row gets the next id of the AUTOINCREMENT key.
execute_insert(self, table, data) ==
    [self EXCEPT ![table] = Append(@, SetItem(data, "id", Len(@) + 1))]

\* SELECT * FROM table WHERE id = ?, then results[0] if results else None.
SelectById(self, table, id) ==
    LET WithId(row) == row.id = id
        results == SelectSeq(self[table], WithId)
    IN  IF results # <<>> THEN Some(results[1]) ELSE None

get_lawyer_by_id(self, lawyer_id) == SelectById(self, "lawyers", lawyer_id)
get_case_by_id(self, case_id) == SelectById(self, "cases", case_id)
get_document_by_id(self, document_id) == SelectById(self, "legal_documents", document_id)

\* SELECT * FROM legal_documents WHERE case_id = ? ORDER BY creation_date DESC
get_case_documents(self, case_id) ==
    LET OfCase(document) == document.case_id = Some(case_id)
    IN  SortedDescending(SelectSeq(self.legal_documents, OfCase), "creation_date")

\* sqlite refuses the row with IntegrityError: a NOT NULL column is left out
\* or None, or a UNIQUE column has a value that a stored row has (NULL equals
\* nothing).
ViolatesConstraint(self, table, data) ==
    LET \* the columns of lawyers and cases declared NOT NULL
        NotNullColumns == CASE table = "lawyers" -> {"name"}
                            [] table = "cases" -> {"case_number", "title"}
                            [] OTHER -> {}
        \* and those declared UNIQUE
        UniqueColumns == CASE table = "lawyers" -> {"bar_number"}
                           [] table = "cases" -> {"case_number"}
                           [] OTHER -> {}
    IN  \/ \E c \in NotNullColumns : Get(data, c, None) = None
        \/ \E c \in UniqueColumns, i \in 1..Len(self[table]) :
              /\ Get(data, c, None) # None
              /\ Get(self[table][i], c, None) = Get(data, c, None)

\* ------------------------------------------------------------- LegalOrchestrator
\* What the orchestrator asks of the database and of an agent, as the entries
\* of `events`.
LookupEvent(fn, id) == [kind |-> "lookup", fn |-> fn, id |-> id]
GenerateEvent(method, data) == [kind |-> "generate", method |-> method, data |-> data]
InsertEvent(table, data) == [kind |-> "insert", table |-> table, data |-> data]

\* An exception that leaves an agent method ("generate") or a database insert
\* ("insert") and reaches the orchestrator's except clause.
RaiseEvent(from, exception) == [kind |-> "raise", from |-> from, exception |-> exception]

\* Mutant: `not x` that never holds, so a missing row passes for a found one.
NeverMissing(x) == FALSE

\* `not x` of a looked-up row: None is false, a row is a non-empty dict.
Missing(x) == x = None

\* The row inside a lookup result; a missing row reads as an empty dict.
RowOf(x) == IF x = None THEN <<>> ELSE x[1]

\* research_data of research_case_law.
ResearchData(kwargs, lawyer) ==
    [legal_issue |-> Get(kwargs, "legal_issue", None),
     jurisdiction |-> Get(kwargs, "jurisdiction",
                          Get(lawyer, "jurisdiction", Some("Not specified"))),
     practice_area |-> Get(kwargs, "practice_area",
                           Get(lawyer, "practice_areas", Some("General"))),
     current_facts |-> Get(kwargs, "current_facts", None),
     precedents |-> Get(kwargs, "precedents", Some(<<>>))]

\* The row research_case_law hands to db.add_research_session.
ResearchSession(lawyer_id, kwargs, research_data, result) ==
    [session_name |-> Some(<<"Case Law Research - ", Slice(research_data.legal_issue[1], 50)>>),
     lawyer_id |-> lawyer_id,
     case_id |-> Get(kwargs, "case_id", None),
     research_query |-> research_data.legal_issue,
     practice_area |-> research_data.practice_area,
     jurisdiction |-> research_data.jurisdiction,
     findings |-> Some(Slice(result, 1000))]

\* The row the other operations hand to db.save_analysis_result.
AnalysisResult(analysis_type, entity_type, entity_id, lawyer_id, result) ==
    [analysis_type |-> Some(analysis_type),
     entity_type |-> Some(entity_type),
     entity_id |-> entity_id,
     lawyer_id |-> lawyer_id,
     result_summary |-> Some(Slice(result, 500)),
     detailed_analysis |-> Some(result)]

\* contract_data of analyze_contract once the stored contract is merged in.
ContractData(kwargs, contract) ==
    SetItem(SetItem(SetItem(kwargs,
        "contract_name", Get(contract, "title", None)),
        "contract_text", Get(contract, "document_content", None)),
        "contract_type", Get(contract, "document_type", None))

\* compliance_data of assess_compliance.
ComplianceData(kwargs, lawyer) ==
    [organization |-> Get(kwargs, "organization",
                          Get(lawyer, "firm", Some("Not specified"))),
     industry |-> Get(kwargs, "industry", None),
     jurisdictions |-> Get(kwargs, "jurisdictions",
                           Some(<<Get(lawyer, "jurisdiction", Some("Not specified"))>>)),
     frameworks |-> Get(kwargs, "frameworks", Some(<<>>)),
     current_practices |-> Get(kwargs, "current_practices", None),
     scope |-> Get(kwargs, "scope", Some(<<>>))]

\* case_data of develop_litigation_strategy: the keys built from the case,
\* then **kwargs over them.
CaseData(kwargs, case) ==
    LET built == [case_name |-> Get(case, "title", Some("Unknown")),
                  case_type |-> Get(case, "case_type", Some("Civil")),
                  client_position |-> Get(kwargs, "client_position", Some("plaintiff")),
                  case_stage |-> Get(case, "status", Some("active")),
                  facts |-> Get(case, "case_summary", Some("Not provided")),
                  legal_issues |-> Get(case, "key_issues", Some("Not specified")),
                  client_info |-> Get(kwargs, "client_info",
                                      Get(case, "client_name", Some("Client"))),
                  objectives |-> Get(kwargs, "objectives", None)]
    IN  [k \in DOMAIN built \cup DOMAIN kwargs |->
            IF k \in DOMAIN kwargs THEN kwargs[k] ELSE built[k]]

\* The drafting agent's method for a document type, None for a type
\* draft_legal_document does not support.
DraftingMethod(document_type) ==
    CASE document_type = "memo" -> Some("draft_legal_memo")
      [] document_type = "motion" -> Some("draft_motion")
      [] document_type = "demand_letter" -> Some("draft_demand_letter")
      [] document_type = "contract_clause" -> Some("draft_contract_clause")
      [] OTHER -> None

\* datetime.now().strftime('%Y-%m-%d')
Date(t) == Second(t) \div 86400

\* The row draft_legal_document hands to db.add_document.
DraftDocument(lawyer_id, document_type, kwargs, result, t) ==
    [document_type |-> Some(document_type),
     title |-> Get(kwargs, "title", Some(<<document_type, " Draft">>)),
     case_id |-> Get(kwargs, "case_id", None),
     lawyer_id |-> lawyer_id,
     document_content |-> Some(result),
     status |-> Some("draft"),
     creation_date |-> Some(Date(t))]

\* ------------------------------------------------------------- initial state
Init ==
    /\ now = 0
    /\ pending_approvals = <<>>
    /\ feedback_store = <<>>
    /\ feedback_counter = 0
    /\ call = [op |-> "none", raised |-> NoException, result |-> None]
    /\ ncalls = 0
    /\ db = EmptyDatabase
    /\ events = <<>>
    /\ threads = <<>>   \* no thread is inside a call

\* What a call hands back: a value, or the exception it raised.
Returned(op, result) == [op |-> op, raised |-> NoException, result |-> result]
Raised(op, exception) == [op |-> op, raised |-> exception, result |-> None]

\* Time passes between two calls.
Tick ==
    /\ now < MaxTime
    /\ now' = now + 1
    /\ UNCHANGED <<pending_approvals, feedback_store, feedback_counter, call, ncalls>>
    /\ UNCHANGED <<db, events, threads>>

\* ------------------------------------------------------------- approval calls
\* The clock is read twice, for the id and for created_at, and may advance
\* in between.
RequestApproval(approval_type, content, metadata, requester_id) ==
    /\ ncalls < MaxCalls
    /\ ncalls' = ncalls + 1
    /\ \E t \in now..Min(now + 1, MaxTime) :
        LET approval_id == ApprovalId(approval_type, now, requester_id)
            approval_request == ApprovalRequest(approval_id, approval_type,
                                    content, metadata, requester_id, t)
        IN  /\ pending_approvals' =
                    DictSet(pending_approvals, approval_id, approval_request)
            /\ now' = t
            /\ call' = Returned("request_approval", approval_id)
    /\ UNCHANGED <<feedback_store, feedback_counter>>
    /\ UNCHANGED <<db, events, threads>>

\* Mutant: approve without the lookup, which files a record under an id it
\* does not know.
ApproveWithoutLookup(approval_id, approver_id, comments, modifications) ==
    /\ ncalls < MaxCalls
    /\ ncalls' = ncalls + 1
    /\ LET found == IF approval_id \in DictKeys(pending_approvals)
                    THEN DictGet(pending_approvals, approval_id)
                    ELSE [id |-> approval_id]
           approval == [found EXCEPT !.id = approval_id] @@
                       [status |-> "approved", approved_by |-> Some(approver_id),
                        approved_at |-> Some(now), comments |-> comments]
       IN  /\ pending_approvals' = DictSet(pending_approvals, approval_id, approval)
           /\ call' = Returned("approve", approval)
    /\ UNCHANGED <<now, feedback_store, feedback_counter>>
    /\ UNCHANGED <<db, events, threads>>

Approve(approval_id, approver_id, comments, modifications) ==
    IF approval_id \notin DictKeys(pending_approvals)
    THEN /\ call' = Raised("approve", "ValueError")
         /\ UNCHANGED <<now, pending_approvals, feedback_store,
                        feedback_counter, ncalls, db, events, threads>>
    ELSE /\ ncalls < MaxCalls
         /\ ncalls' = ncalls + 1
         /\ LET approval == ApproveRecord(DictGet(pending_approvals, approval_id),
                                approver_id, now, comments, modifications)
            IN  /\ pending_approvals' =
                        DictSet(pending_approvals, approval_id, approval)
                /\ call' = Returned("approve", approval)
         /\ UNCHANGED <<now, feedback_store, feedback_counter, db, events, threads>>

Reject(approval_id, approver_id, reason) ==
    IF approval_id \notin DictKeys(pending_approvals)
    THEN /\ call' = Raised("reject", "ValueError")
         /\ UNCHANGED <<now, pending_approvals, feedback_store,
                        feedback_counter, ncalls, db, events, threads>>
    ELSE /\ ncalls < MaxCalls
         /\ ncalls' = ncalls + 1
         /\ LET approval == RejectRecord(DictGet(pending_approvals, approval_id),
                                approver_id, now, reason)
            IN  /\ pending_approvals' =
                        DictSet(pending_approvals, approval_id, approval)
                /\ call' = Returned("reject", approval)
         /\ UNCHANGED <<now, feedback_store, feedback_counter, db, events, threads>>

GetPendingApprovals(requester_id) ==
    /\ call' = Returned("get_pending_approvals", get_pending_approvals(pending_approvals, requester_id))
    /\ UNCHANGED <<now, pending_approvals, feedback_store, feedback_counter, ncalls>>
    /\ UNCHANGED <<db, events, threads>>

GetApprovalStatus(approval_id) ==
    /\ call' = Returned("get_approval_status", get_approval_status(pending_approvals, approval_id))
    /\ UNCHANGED <<now, pending_approvals, feedback_store, feedback_counter, ncalls>>
    /\ UNCHANGED <<db, events, threads>>

GetApprovalHistory(requester_id) ==
    /\ call' = Returned("get_approval_history", get_approval_history(pending_approvals, requester_id))
    /\ UNCHANGED <<now, pending_approvals, feedback_store, feedback_counter, ncalls>>
    /\ UNCHANGED <<db, events, threads>>

\* ------------------------------------------------------------- feedback calls
\* The counter is bumped and the id built before the rating is checked. The
\* clock is read twice, for the id and for submitted_at.
SubmitFeedback(content_id, content_type, user_id, rating, comments, specific_issues) ==
    /\ ncalls < MaxCalls
    /\ feedback_counter < MaxSubmissions
    /\ ncalls' = ncalls + 1
    /\ feedback_counter' = feedback_counter + 1
    /\ LET feedback_id == FeedbackId(feedback_counter + 1, now)
       IN  IF RatingRejected(rating)
           THEN /\ call' = Raised("submit_feedback", "ValueError")
                /\ UNCHANGED <<now, feedback_store>>
           ELSE \E t \in now..Min(now + 1, MaxTime) :
                /\ feedback_store' =
                      DictSet(feedback_store, feedback_id,
                              Feedback(feedback_id, content_id, content_type, user_id,
                                       rating, comments, specific_issues, t))
                /\ now' = t
                /\ call' = Returned("submit_feedback", feedback_id)
    /\ UNCHANGED pending_approvals
    /\ UNCHANGED <<db, events, threads>>

GetFeedback(feedback_id) ==
    /\ call' = Returned("get_feedback", get_feedback(feedback_store, feedback_id))
    /\ UNCHANGED <<now, pending_approvals, feedback_store, feedback_counter, ncalls>>
    /\ UNCHANGED <<db, events, threads>>

GetContentFeedback(content_id) ==
    /\ call' = Returned("get_content_feedback", get_content_feedback(feedback_store, content_id))
    /\ UNCHANGED <<now, pending_approvals, feedback_store, feedback_counter, ncalls>>
    /\ UNCHANGED <<db, events, threads>>

GetUserFeedback(user_id) ==
    /\ call' = Returned("get_user_feedback", get_user_feedback(feedback_store, user_id))
    /\ UNCHANGED <<now, pending_approvals, feedback_store, feedback_counter, ncalls>>
    /\ UNCHANGED <<db, events, threads>>

GetFeedbackByType(content_type) ==
    /\ call' = Returned("get_feedback_by_type", get_feedback_by_type(feedback_store, content_type))
    /\ UNCHANGED <<now, pending_approvals, feedback_store, feedback_counter, ncalls>>
    /\ UNCHANGED <<db, events, threads>>

GetLowRatedContent(threshold) ==
    /\ call' = Returned("get_low_rated_content", get_low_rated_content(feedback_store, threshold))
    /\ UNCHANGED <<now, pending_approvals, feedback_store, feedback_counter, ncalls>>
    /\ UNCHANGED <<db, events, threads>>

GetFeedbackSummary(content_type) ==
    /\ call' = Returned("get_feedback_summary", get_feedback_summary(feedback_store, content_type))
    /\ UNCHANGED <<now, pending_approvals, feedback_store, feedback_counter, ncalls>>
    /\ UNCHANGED <<db, events, threads>>

\* Mutant: mark_addressed without the lookup, where subscripting the store
\* with an unknown id raises.
MarkAddressedWithoutLookup(feedback_id, follow_up) ==
    IF feedback_id \notin DictKeys(feedback_store)
    THEN /\ call' = Raised("mark_addressed", "KeyError")
         /\ UNCHANGED <<now, pending_approvals, feedback_store,
                        feedback_counter, ncalls, db, events, threads>>
    ELSE /\ ncalls < MaxCalls
         /\ ncalls' = ncalls + 1
         /\ feedback_store' =
                DictSet(feedback_store, feedback_id,
                        AddressedRecord(DictGet(feedback_store, feedback_id),
                                        follow_up, now))
         /\ call' = Returned("mark_addressed", TRUE)
         /\ UNCHANGED <<now, pending_approvals, feedback_counter, db, events, threads>>

MarkAddressed(feedback_id, follow_up) ==
    IF feedback_id \notin DictKeys(feedback_store)
    THEN /\ call' = Returned("mark_addressed", FALSE)
         /\ UNCHANGED <<now, pending_approvals, feedback_store,
                        feedback_counter, ncalls, db, events, threads>>
    ELSE /\ ncalls < MaxCalls
         /\ ncalls' = ncalls + 1
         /\ feedback_store' =
                DictSet(feedback_store, feedback_id,
                        AddressedRecord(DictGet(feedback_store, feedback_id),
                                        follow_up, now))
         /\ call' = Returned("mark_addressed", TRUE)
         /\ UNCHANGED <<now, pending_approvals, feedback_counter, db, events, threads>>

\* A second call in a row on the unchanged store can return nothing a first
\* call cannot, so it is left out.
IdentifyImprovementAreas ==
    /\ call.op # "identify_improvement_areas"
    /\ \E improvement_areas \in identify_improvement_areas(feedback_store) :
            call' = Returned("identify_improvement_areas", improvement_areas)
    /\ UNCHANGED <<now, pending_approvals, feedback_store, feedback_counter, ncalls>>
    /\ UNCHANGED <<db, events, threads>>

\* The text an agent returns, longer than every slice the orchestrator takes.
Generations == {Text("analysis", 1200)}

\* A database file that already holds a lawyer, a case of that lawyer and a
\* contract of the case.
SampleDatabase ==
    [EmptyDatabase EXCEPT
        !.lawyers = <<[id |-> 1, name |-> Some("A. Rao"), firm |-> Some("Rao LLP"),
                       practice_areas |-> Some("Contracts"),
                       jurisdiction |-> Some("NY")]>>,
        !.cases = <<[id |-> 1, title |-> Some("Rao v. Acme"), case_type |-> Some("Civil"),
                     status |-> Some("active"), lawyer_id |-> 1,
                     client_name |-> Some("Acme"),
                     case_summary |-> Some("breach of lease"),
                     key_issues |-> Some("notice period")]>>,
        !.legal_documents = <<[id |-> 1, document_type |-> Some("contract"),
                               title |-> Some(Text("Lease", 5)), case_id |-> Some(1),
                               lawyer_id |-> 1,
                               document_content |-> Some("lease text"),
                               status |-> Some("final")]>>]

\* Lawyer, case and document ids a caller passes: the stored one and one no
\* row has.
LawyerIdArgs == {1, 9}
CaseIdArgs == {1, 5}
ContractIdArgs == {None, Some(1), Some(7)}
LegalIssue == Text("negligence", 10)
\* **kwargs of research_case_law: the legal issue alone; the fields the REST
\* endpoint passes, None for those the request left out; a case no row has;
\* and no legal issue.
ResearchKwargs ==
    {[legal_issue |-> Some(LegalIssue)],
     [legal_issue |-> Some(LegalIssue), jurisdiction |-> None, case_id |-> Some(1)],
     [legal_issue |-> Some(LegalIssue), jurisdiction |-> Some("CA"), case_id |-> Some(5)],
     [legal_issue |-> None]}
NoKwargs == <<>>
\* A document type draft_legal_document supports and one it does not.
DocumentTypes == {"motion", "brief"}

\* ------------------------------------------------------------- orchestrator calls
\* An operation that raises before it reaches the agent: `lookups` are the
\* database calls it made.
Fail(op, lookups, exception) ==
    /\ events' = lookups
    /\ call' = Raised(op, exception)
    /\ UNCHANGED <<now, pending_approvals, feedback_store, feedback_counter,
                   ncalls, db, threads>>

\* What can happen from the agent call on: the agent raises, or it returns
\* and the insert raises, or both return.
Outcomes == {"agent raises", "insert raises", "returns"}

\* Mutant: the operation writes its row, calls the agent, and writes again.
FinishTwice(op, lookups, method, data, result, table, row, outcome) ==
    /\ outcome = "returns"
    /\ ncalls < MaxWrites
    /\ ncalls' = ncalls + 1
    /\ db' = execute_insert(execute_insert(db, table, row), table, row)
    /\ events' = lookups \o <<InsertEvent(table, row), GenerateEvent(method, data),
                              InsertEvent(table, row)>>
    /\ call' = Returned(op, result)
    /\ UNCHANGED <<now, pending_approvals, feedback_store, feedback_counter,
                   threads>>

\* Mutant: when the agent raises, the operation calls it a second time and
\* goes on with the answer.
FinishWithRetry(op, lookups, method, data, result, table, row, outcome) ==
    /\ ncalls < MaxWrites
    /\ ncalls' = ncalls + 1
    /\ db' = execute_insert(db, table, row)
    /\ events' = lookups \o
                    (IF outcome = "agent raises"
                     THEN <<GenerateEvent(method, data),
                            RaiseEvent("generate", "Exception")>>
                     ELSE <<>>) \o
                    <<GenerateEvent(method, data), InsertEvent(table, row)>>
    /\ call' = Returned(op, result)
    /\ UNCHANGED <<now, pending_approvals, feedback_store, feedback_counter,
                   threads>>

\* The part every operation ends with: the agent method is called once with
\* `data`; when it returns `result`, `row` is inserted into `table` and the
\* result returned. An exception of either call is logged and raised again.
Finish(op, lookups, method, data, result, table, row, outcome) ==
    /\ CASE outcome = "agent raises" ->
              /\ events' = lookups \o <<GenerateEvent(method, data),
                                        RaiseEvent("generate", "Exception")>>
              /\ call' = Raised(op, "Exception")
              /\ UNCHANGED <<ncalls, db>>
         [] outcome = "insert raises" ->
              /\ events' = lookups \o <<GenerateEvent(method, data),
                                        InsertEvent(table, row),
                                        RaiseEvent("insert", "sqlite3.Error")>>
              /\ call' = Raised(op, "sqlite3.Error")
              /\ UNCHANGED <<ncalls, db>>
         [] outcome = "returns" ->
              /\ ncalls < MaxWrites
              /\ ncalls' = ncalls + 1
              /\ db' = execute_insert(db, table, row)
              /\ events' = lookups \o <<GenerateEvent(method, data),
                                        InsertEvent(table, row)>>
              /\ call' = Returned(op, result)
    /\ UNCHANGED <<now, pending_approvals, feedback_store, feedback_counter,
                   threads>>

\* The case law agent slices research_data['legal_issue'] for its log line
\* before it runs, which raises TypeError for None.
ResearchCaseLaw(lawyer_id, kwargs) ==
    LET lawyer == get_lawyer_by_id(db, lawyer_id)
        found == <<LookupEvent("get_lawyer_by_id", lawyer_id)>>
    IN  IF Missing(lawyer)
        THEN Fail("research_case_law", found, "ValueError")
        ELSE LET case_id == Get(kwargs, "case_id", None)
                 with_case == TruthyInt(case_id)
                 case == IF with_case THEN get_case_by_id(db, case_id[1]) ELSE None
                 lookups == IF with_case
                            THEN Append(found, LookupEvent("get_case_by_id", case_id[1]))
                            ELSE found
                 built == ResearchData(kwargs, RowOf(lawyer))
                 research_data ==
                     IF case # None
                     THEN [built EXCEPT !.current_facts = Get(case[1], "case_summary", None)]
                     ELSE built
             IN  IF research_data.legal_issue = None
                 THEN Fail("research_case_law", lookups, "TypeError")
                 ELSE \E result \in Generations, outcome \in Outcomes :
                        Finish("research_case_law", lookups, "research_precedents",
                               research_data, result, "research_sessions",
                               ResearchSession(lawyer_id, kwargs, research_data, result),
                               outcome)

\* A contract_id that is not a stored document makes contract.get raise
\* AttributeError.
AnalyzeContract(lawyer_id, contract_id, kwargs) ==
    LET with_contract == TruthyInt(contract_id)
        contract == IF with_contract THEN get_document_by_id(db, contract_id[1]) ELSE None
        lookups == IF with_contract
                   THEN <<LookupEvent("get_document_by_id", contract_id[1])>>
                   ELSE <<>>
    IN  IF with_contract /\ contract = None
        THEN Fail("analyze_contract", lookups, "AttributeError")
        ELSE LET contract_data == IF with_contract
                                  THEN ContractData(kwargs, contract[1])
                                  ELSE kwargs
             IN  \E result \in Generations, outcome \in Outcomes :
                    Finish("analyze_contract", lookups, "analyze_contract",
                           contract_data, result, "analysis_results",
                           AnalysisResult("contract_analysis", "contract",
                               IF with_contract THEN contract_id[1] ELSE 0,
                               lawyer_id, result),
                           outcome)

AssessCompliance(lawyer_id, kwargs) ==
    LET lawyer == get_lawyer_by_id(db, lawyer_id)
        lookups == <<LookupEvent("get_lawyer_by_id", lawyer_id)>>
    IN  IF Missing(lawyer)
        THEN Fail("assess_compliance", lookups, "ValueError")
        ELSE \E result \in Generations, outcome \in Outcomes :
                Finish("assess_compliance", lookups, "assess_compliance",
                       ComplianceData(kwargs, RowOf(lawyer)), result,
                       "analysis_results",
                       AnalysisResult("compliance_assessment", "organization", 0,
                                      lawyer_id, result),
                       outcome)

DraftLegalDocument(lawyer_id, document_type, kwargs) ==
    LET method == DraftingMethod(document_type)
    IN  IF method = None
        THEN Fail("draft_legal_document", <<>>, "ValueError")
        ELSE \E result \in Generations, outcome \in Outcomes :
                Finish("draft_legal_document", <<>>, method[1], kwargs, result,
                       "legal_documents",
                       DraftDocument(lawyer_id, document_type, kwargs, result, now),
                       outcome)

DevelopLitigationStrategy(lawyer_id, case_id, kwargs) ==
    LET case == get_case_by_id(db, case_id)
        lawyer == get_lawyer_by_id(db, lawyer_id)
        case_lookup == <<LookupEvent("get_case_by_id", case_id)>>
        lookups == Append(case_lookup, LookupEvent("get_lawyer_by_id", lawyer_id))
    IN  IF Missing(case)
        THEN Fail("develop_litigation_strategy", case_lookup, "ValueError")
        ELSE IF Missing(lawyer)
        THEN Fail("develop_litigation_strategy", lookups, "ValueError")
        ELSE \E result \in Generations, outcome \in Outcomes :
                Finish("develop_litigation_strategy", lookups, "analyze_case_strategy",
                       CaseData(kwargs, RowOf(case)), result, "analysis_results",
                       AnalysisResult("litigation_strategy", "case", case_id,
                                      lawyer_id, result),
                       outcome)

\* ------------------------------------------------------------- database calls
\* Mutant: the row of an insert that raises stays in the table.
AddRowWithoutRollback(op, table, data) ==
    /\ ncalls < MaxCalls
    /\ ncalls' = ncalls + 1
    /\ db' = execute_insert(db, table, data)
    /\ events' = <<InsertEvent(table, data)>>
    /\ call' = IF ViolatesConstraint(db, table, data)
               THEN Raised(op, "sqlite3.IntegrityError")
               ELSE Returned(op, Len(db[table]) + 1)
    /\ UNCHANGED <<now, pending_approvals, feedback_store, feedback_counter,
                   threads>>

\* add_lawyer and add_case: execute_insert in a connection that commits when
\* the insert returns, and rolls back and raises when it raises; the value
\* returned is cursor.lastrowid.
AddRow(op, table, data) ==
    /\ ncalls < MaxCalls
    /\ ncalls' = ncalls + 1
    /\ events' = <<InsertEvent(table, data)>>
    /\ IF ViolatesConstraint(db, table, data)
       THEN /\ call' = Raised(op, "sqlite3.IntegrityError")
            /\ db' = db
       ELSE /\ call' = Returned(op, Len(db[table]) + 1)
            /\ db' = execute_insert(db, table, data)
    /\ UNCHANGED <<now, pending_approvals, feedback_store, feedback_counter,
                   threads>>

AddLawyer(lawyer_data) == AddRow("add_lawyer", "lawyers", lawyer_data)
AddCase(case_data) == AddRow("add_case", "cases", case_data)

GetLawyerById(lawyer_id) ==
    /\ call' = Returned("get_lawyer_by_id", get_lawyer_by_id(db, lawyer_id))
    /\ events' = <<LookupEvent("get_lawyer_by_id", lawyer_id)>>
    /\ UNCHANGED <<now, pending_approvals, feedback_store, feedback_counter,
                   ncalls, db, threads>>

GetCaseById(case_id) ==
    /\ call' = Returned("get_case_by_id", get_case_by_id(db, case_id))
    /\ events' = <<LookupEvent("get_case_by_id", case_id)>>
    /\ UNCHANGED <<now, pending_approvals, feedback_store, feedback_counter,
                   ncalls, db, threads>>

\* ------------------------------------------------------------- chained calls
\* comprehensive_case_analysis calls three of the operations above one after
\* the other, each on the database the one before left. For that the three
\* are written once more as functions of the database: the database after the
\* call, the requests it made, the exception it raised and what it returned.
Run(database, made, raised, result) ==
    [db |-> database, events |-> made, raised |-> raised, result |-> result]

\* agent call, insert and return of an operation, as Finish has them.
Finished(self, lookups, method, data, result, table, row, outcome) ==
    CASE outcome = "agent raises" ->
             Run(self,
                 lookups \o <<GenerateEvent(method, data),
                              RaiseEvent("generate", "Exception")>>,
                 "Exception", None)
      [] outcome = "insert raises" ->
             Run(self,
                 lookups \o <<GenerateEvent(method, data), InsertEvent(table, row),
                              RaiseEvent("insert", "sqlite3.Error")>>,
                 "sqlite3.Error", None)
      [] outcome = "returns" ->
             Run(execute_insert(self, table, row),
                 lookups \o <<GenerateEvent(method, data), InsertEvent(table, row)>>,
                 NoException, result)

research_case_law(self, lawyer_id, kwargs, result, outcome) ==
    LET lawyer == get_lawyer_by_id(self, lawyer_id)
        found == <<LookupEvent("get_lawyer_by_id", lawyer_id)>>
    IN  IF Missing(lawyer)
        THEN Run(self, found, "ValueError", None)
        ELSE LET case_id == Get(kwargs, "case_id", None)
                 with_case == TruthyInt(case_id)
                 case == IF with_case THEN get_case_by_id(self, case_id[1]) ELSE None
                 lookups == IF with_case
                            THEN Append(found, LookupEvent("get_case_by_id", case_id[1]))
                            ELSE found
                 built == ResearchData(kwargs, RowOf(lawyer))
                 research_data ==
                     IF case # None
                     THEN [built EXCEPT !.current_facts = Get(case[1], "case_summary", None)]
                     ELSE built
             IN  IF research_data.legal_issue = None
                 THEN Run(self, lookups, "TypeError", None)
                 ELSE Finished(self, lookups, "research_precedents", research_data,
                               result, "research_sessions",
                               ResearchSession(lawyer_id, kwargs, research_data, result),
                               outcome)

develop_litigation_strategy(self, lawyer_id, case_id, kwargs, result, outcome) ==
    LET case == get_case_by_id(self, case_id)
        lawyer == get_lawyer_by_id(self, lawyer_id)
        case_lookup == <<LookupEvent("get_case_by_id", case_id)>>
        lookups == Append(case_lookup, LookupEvent("get_lawyer_by_id", lawyer_id))
    IN  IF Missing(case)
        THEN Run(self, case_lookup, "ValueError", None)
        ELSE IF Missing(lawyer)
        THEN Run(self, lookups, "ValueError", None)
        ELSE Finished(self, lookups, "analyze_case_strategy",
                      CaseData(kwargs, RowOf(case)), result, "analysis_results",
                      AnalysisResult("litigation_strategy", "case", case_id,
                                     lawyer_id, result),
                      outcome)

analyze_contract(self, lawyer_id, contract_id, kwargs, result, outcome) ==
    LET with_contract == TruthyInt(contract_id)
        contract == IF with_contract THEN get_document_by_id(self, contract_id[1]) ELSE None
        lookups == IF with_contract
                   THEN <<LookupEvent("get_document_by_id", contract_id[1])>>
                   ELSE <<>>
    IN  IF with_contract /\ contract = None
        THEN Run(self, lookups, "AttributeError", None)
        ELSE Finished(self, lookups, "analyze_contract",
                      IF with_contract THEN ContractData(kwargs, contract[1]) ELSE kwargs,
                      result, "analysis_results",
                      AnalysisResult("contract_analysis", "contract",
                                     IF with_contract THEN contract_id[1] ELSE 0,
                                     lawyer_id, result),
                      outcome)

\* `fails` says which call of a chain goes wrong and how: None, or the
\* position of the call among those the chain makes and the outcome it has.
OutcomeAt(fails, k) ==
    IF fails # None /\ fails[1][1] = k THEN fails[1][2] ELSE "returns"

\* doc.get('document_type') in ['contract', 'agreement']
IsContractType(doc) == doc.document_type \in {Some("contract"), Some("agreement")}

\* The loop over the documents: `so_far` is what the chain has done when the
\* loop reaches `docs`; an exception ends it.
RECURSIVE AnalyzeDocuments(_, _, _, _, _)
AnalyzeDocuments(so_far, lawyer_id, docs, result, fails) ==
    IF docs = <<>> \/ so_far.raised # NoException
    THEN so_far
    ELSE IF ~IsContractType(Head(docs))
    THEN AnalyzeDocuments(so_far, lawyer_id, Tail(docs), result, fails)
    ELSE LET run == analyze_contract(so_far.db, lawyer_id, Some(Head(docs).id),
                                     NoKwargs, result,
                                     OutcomeAt(fails, so_far.calls + 1))
         IN  AnalyzeDocuments(
                 [db |-> run.db,
                  events |-> so_far.events \o run.events,
                  raised |-> run.raised,
                  analyses |-> IF run.raised = NoException
                               THEN Append(so_far.analyses, run.result)
                               ELSE so_far.analyses,
                  calls |-> so_far.calls + 1],
                 lawyer_id, Tail(docs), result, fails)

\* Mutant: an exception of a chained call is logged and the chain returns the
\* results it has.
ChainReturnsWhatItHas(failed, results, made) ==
    Run(failed.db, made, NoException, results)

\* A chained call raised: the chain logs and raises the same exception, and
\* the results it has are dropped.
ChainFailure(failed, results, made) == Run(failed.db, made, failed.raised, None)

comprehensive_case_analysis(self, lawyer_id, case_id, result, fails) ==
    LET case == get_case_by_id(self, case_id)
        case_lookup == <<LookupEvent("get_case_by_id", case_id)>>
    IN  IF case = None
        THEN Run(self, case_lookup, "AttributeError", None)
        ELSE
        LET research ==
                research_case_law(self, lawyer_id,
                    [case_id |-> Some(case_id),
                     legal_issue |-> Get(case[1], "key_issues", None),
                     practice_area |-> Get(case[1], "practice_area", None)],
                    result, OutcomeAt(fails, 1))
            after_research == case_lookup \o research.events
        IN  IF research.raised # NoException
            THEN ChainFailure(research, <<>>, after_research)
            ELSE
            LET strategy ==
                    develop_litigation_strategy(research.db, lawyer_id, case_id,
                                                NoKwargs, result, OutcomeAt(fails, 2))
                after_strategy == after_research \o strategy.events
            IN  IF strategy.raised # NoException
                THEN ChainFailure(strategy,
                                  [case_law_research |-> research.result],
                                  after_strategy)
                ELSE
                LET documents == get_case_documents(strategy.db, case_id)
                    listed == Append(after_strategy,
                                     LookupEvent("get_case_documents", case_id))
                    results == [case_law_research |-> research.result,
                                litigation_strategy |-> strategy.result]
                IN  IF documents = <<>>
                    THEN Run(strategy.db, listed, NoException, results)
                    ELSE
                    LET analysed ==
                            AnalyzeDocuments(
                                [db |-> strategy.db, events |-> listed,
                                 raised |-> NoException, analyses |-> <<>>,
                                 calls |-> 2],
                                lawyer_id, Prefix(documents, 3),
                                result, fails)
                    IN  IF analysed.raised # NoException
                        THEN ChainFailure(analysed,
                                          SetItem(results, "document_analyses",
                                                  analysed.analyses),
                                          analysed.events)
                        ELSE Run(analysed.db, analysed.events, NoException,
                                 SetItem(results, "document_analyses",
                                         analysed.analyses))

ComprehensiveCaseAnalysis(lawyer_id, case_id) ==
    \E result \in Generations,
       fails \in {None} \cup {Some(<<k, outcome>>) :
                                 k \in 1..5, outcome \in Outcomes \ {"returns"}} :
        LET run == comprehensive_case_analysis(db, lawyer_id, case_id, result, fails)
        IN  /\ ncalls < MaxCalls
            /\ ncalls' = ncalls + 1
            /\ db' = run.db
            /\ events' = run.events
            /\ call' = IF run.raised = NoException
                       THEN Returned("comprehensive_case_analysis", run.result)
                       ELSE Raised("comprehensive_case_analysis", run.raised)
            /\ UNCHANGED <<now, pending_approvals, feedback_store, feedback_counter,
                   threads>>

\* ------------------------------------------------------------- calls in threads
\* Neither class takes a lock, so a call that runs in a thread can be
\* interrupted between any two of its statements. Here approve, reject and
\* submit_feedback go statement by statement; a thread makes one call.
Idle == [pc |-> "idle"]
Done(op, raised, result) == [pc |-> "done", op |-> op, raised |-> raised, result |-> result]

\* The lookup at the head of approve and reject.
BeginDecision(t, op, approval_id, assignments) ==
    /\ threads[t] = Idle
    /\ threads' =
          [threads EXCEPT ![t] =
              IF approval_id \notin DictKeys(pending_approvals)
              THEN Done(op, "ValueError", None)
              ELSE [pc |-> "assign", op |-> op, approval_id |-> approval_id,
                    todo |-> assignments]]
    /\ UNCHANGED <<now, pending_approvals, feedback_store, feedback_counter, call,
                   ncalls, db, events>>

\* approve makes these item assignments to the stored dict, in this order;
\* approved_at gets the clock of the moment it is assigned.
BeginApprove(t, approval_id, approver_id, comments, modifications) ==
    BeginDecision(t, "approve", approval_id,
        <<[key |-> "status", value |-> "approved"],
          [key |-> "approved_by", value |-> Some(approver_id)],
          [key |-> "approved_at", value |-> None],
          [key |-> "comments", value |-> comments]>> \o
        (IF TruthyStr(modifications)
         THEN <<[key |-> "modified_content", value |-> modifications],
                [key |-> "content_modified", value |-> TRUE]>>
         ELSE <<[key |-> "content_modified", value |-> FALSE]>>))

\* The item assignments reject makes.
BeginReject(t, approval_id, approver_id, reason) ==
    BeginDecision(t, "reject", approval_id,
        <<[key |-> "status", value |-> "rejected"],
          [key |-> "approved_by", value |-> Some(approver_id)],
          [key |-> "approved_at", value |-> None],
          [key |-> "rejection_reason", value |-> reason]>>)

\* approval[key] = value, the next assignment of the thread's call.
Assign(t) ==
    /\ threads[t].pc = "assign"
    /\ threads[t].todo # <<>>
    /\ LET statement == Head(threads[t].todo)
           value == IF statement.key = "approved_at" THEN Some(now)
                    ELSE statement.value
           approval == DictGet(pending_approvals, threads[t].approval_id)
       IN  pending_approvals' =
               DictSet(pending_approvals, threads[t].approval_id,
                       SetItem(approval, statement.key, value))
    /\ threads' = [threads EXCEPT ![t].todo = Tail(@)]
    /\ UNCHANGED <<now, feedback_store, feedback_counter, call, ncalls, db, events>>

\* return approval
ReturnDecision(t) ==
    /\ threads[t].pc = "assign"
    /\ threads[t].todo = <<>>
    /\ LET approval == DictGet(pending_approvals, threads[t].approval_id)
       IN  /\ threads' = [threads EXCEPT ![t] = Done(threads[t].op, NoException, approval)]
           /\ call' = Returned(threads[t].op, approval)
    /\ UNCHANGED <<now, pending_approvals, feedback_store, feedback_counter,
                   ncalls, db, events>>

\* self.feedback_counter += 1, first half: the counter is read.
LoadCounter(t, content_id, content_type, user_id, rating, comments, specific_issues) ==
    /\ threads[t] = Idle
    /\ threads' =
          [threads EXCEPT ![t] =
              [pc |-> "store counter", loaded |-> feedback_counter,
               content_id |-> content_id, content_type |-> content_type,
               user_id |-> user_id, rating |-> rating, comments |-> comments,
               specific_issues |-> specific_issues]]
    /\ UNCHANGED <<now, pending_approvals, feedback_store, feedback_counter, call,
                   ncalls, db, events>>

\* self.feedback_counter += 1, second half: the value read, plus one, is
\* written back.
StoreCounter(t) ==
    /\ threads[t].pc = "store counter"
    /\ feedback_counter' = threads[t].loaded + 1
    /\ threads' = [threads EXCEPT ![t].pc = "build id"]
    /\ UNCHANGED <<now, pending_approvals, feedback_store, call, ncalls, db, events>>

\* The id is built from the counter as it is now, and the rating checked.
BuildFeedbackId(t) ==
    /\ threads[t].pc = "build id"
    /\ IF RatingRejected(threads[t].rating)
       THEN /\ threads' = [threads EXCEPT ![t] =
                              Done("submit_feedback", "ValueError", None)]
            /\ call' = Raised("submit_feedback", "ValueError")
       ELSE /\ threads' = [threads EXCEPT ![t] =
                              SetItem(SetItem(@, "pc", "store feedback"),
                                      "feedback_id", FeedbackId(feedback_counter, now))]
            /\ call' = call
    /\ UNCHANGED <<now, pending_approvals, feedback_store, feedback_counter,
                   ncalls, db, events>>

\* The dict is built, stored under the id, and the id returned.
StoreFeedback(t) ==
    /\ threads[t].pc = "store feedback"
    /\ LET my == threads[t]
       IN  /\ feedback_store' =
                 DictSet(feedback_store, my.feedback_id,
                         Feedback(my.feedback_id, my.content_id, my.content_type,
                                  my.user_id, my.rating, my.comments,
                                  my.specific_issues, now))
           /\ threads' = [threads EXCEPT ![t] =
                             Done("submit_feedback", NoException, my.feedback_id)]
           /\ call' = Returned("submit_feedback", my.feedback_id)
    /\ UNCHANGED <<now, pending_approvals, feedback_counter, ncalls, db, events>>

\* The thread that decides requests, and the two that submit feedback.
ApprovalThreads == {1}
FeedbackThreads == {1, 2}

\* ------------------------------------------------------------- arguments
\* The approval ids a caller passes: every id handed out, and one that was not.
ApprovalIdArgs == DictKeys(pending_approvals) \cup {UnknownApprovalId}
CommentArgs == {None, Some("looks fine")}
ModificationArgs == {None, Some(""), Some("revised text")}
RequesterFilterArgs == {None} \cup {Some(r) : r \in Requesters}

\* What feedback is about: a content id as the callers build it, the content
\* type that goes with it, and the user who rates it. Each of the three keys
\* splits the subjects differently.
FeedbackSubjects ==
    {[content_id |-> "contract_lease", content_type |-> "contract_analysis", user_id |-> 1],
     [content_id |-> "contract_nda", content_type |-> "contract_analysis", user_id |-> 2],
     [content_id |-> "strategy_1", content_type |-> "litigation_strategy", user_id |-> 1]}
ContentIds == {sb.content_id : sb \in FeedbackSubjects}
ContentTypes == {sb.content_type : sb \in FeedbackSubjects}
Users == {sb.user_id : sb \in FeedbackSubjects}
Ratings == 0..6
FeedbackCommentArgs == {None}
IssueArgs == {None}
\* One value of a set, for an argument the calls under check do not read.
OneOf(S) == {CHOOSE x \in S : TRUE}
FeedbackIdArgs == DictKeys(feedback_store) \cup {UnknownFeedbackId}

\* The content_type filters of get_feedback_summary: none, the empty string,
\* every type in use and one no record has.
SummaryFilterArgs ==
    {None, Some(""), Some("compliance")} \cup {Some(ct) : ct \in ContentTypes}
\* One subject of each content type.
ContractSubject == CHOOSE sb \in FeedbackSubjects : sb.content_id = "contract_lease"
StrategySubject == CHOOSE sb \in FeedbackSubjects : sb.content_id = "strategy_1"
\* threshold: int = 3
DefaultThreshold == 3
Thresholds == {DefaultThreshold, 5}
FollowUps == {"fixed", "rechecked"}
\* specific_issues lists: one with a label twice, and two more that share a
\* label with it and bring the number of labels past five.
RepeatedIssues == <<"vague", "vague", "outdated">>
IssueListArgs ==
    {None, Some(RepeatedIssues), Some(<<"cites", "format", "tone">>),
     Some(<<"scope", "length", "vague">>)}

\* Submissions for the improvement areas: three low-rated ones of one content
\* type that together bring six different entries (one with an empty
\* comment), one of that type rated 3, and a low-rated one of another type.
ImprovementSubmissions ==
    {[subject |-> ContractSubject, rating |-> 2,
      comments |-> Some("too vague"), specific_issues |-> Some(<<"cites">>)],
     [subject |-> ContractSubject, rating |-> 1,
      comments |-> Some(""), specific_issues |-> Some(<<"format", "tone">>)],
     [subject |-> ContractSubject, rating |-> 2,
      comments |-> None, specific_issues |-> Some(<<"scope", "length">>)],
     [subject |-> ContractSubject, rating |-> 3,
      comments |-> Some("fine"), specific_issues |-> Some(<<"cites", "style">>)],
     [subject |-> StrategySubject, rating |-> 2,
      comments |-> Some("too vague"), specific_issues |-> None]}

\* ------------------------------------------------------------- specifications
NextApproval ==
    \/ Tick
    \/ \E ty \in ApprovalTypes, c \in Contents, m \in Metadatas, r \in Requesters :
            RequestApproval(ty, c, m, r)
    \/ \E id \in ApprovalIdArgs, a \in Approvers, cm \in CommentArgs,
          md \in ModificationArgs :
            Approve(id, a, cm, md)
    \/ \E id \in ApprovalIdArgs, a \in Approvers, rs \in Reasons :
            Reject(id, a, rs)
    \/ \E r \in RequesterFilterArgs : GetPendingApprovals(r)
    \/ \E id \in ApprovalIdArgs : GetApprovalStatus(id)
    \/ \E r \in Requesters : GetApprovalHistory(r)

\* Submissions with every rating; the subject, which submit_feedback only
\* stores, takes one value.
NextFeedback ==
    \/ Tick
    \/ \E sb \in OneOf(FeedbackSubjects), rt \in Ratings,
          cm \in FeedbackCommentArgs, si \in IssueArgs :
            SubmitFeedback(sb.content_id, sb.content_type, sb.user_id, rt, cm, si)
    \/ \E id \in FeedbackIdArgs : GetFeedback(id)

\* Both stores in one process, with the calls that fill them and the listing
\* queries that sort by creation time. The arguments no listing reads (the
\* approver, the comments, the modifications, the rating) take one value.
NextListing ==
    \/ Tick
    \/ \E ty \in ApprovalTypes, c \in Contents, m \in Metadatas, r \in Requesters :
            RequestApproval(ty, c, m, r)
    \/ \E id \in DictKeys(pending_approvals), a \in Approvers :
            Approve(id, a, None, None)
    \/ \E id \in DictKeys(pending_approvals), a \in Approvers, rs \in Reasons :
            Reject(id, a, rs)
    \/ \E r \in Requesters : GetApprovalHistory(r)
    \/ \E sb \in FeedbackSubjects, rt \in OneOf(1..5) :
            SubmitFeedback(sb.content_id, sb.content_type, sb.user_id, rt, None, None)
    \/ \E cid \in ContentIds : GetContentFeedback(cid)
    \/ \E u \in Users : GetUserFeedback(u)
    \/ \E ct \in ContentTypes : GetFeedbackByType(ct)

\* The feedback handler with the statistics over the ratings: every rating
\* for one content type, and one rating for another, which the filter tells
\* apart. The comments and the issues, which these do not read, take one
\* value, and the clock moves only inside submit_feedback.
NextSummary ==
    \/ \E sb \in {ContractSubject}, rt \in 1..5 :
            SubmitFeedback(sb.content_id, sb.content_type, sb.user_id, rt, None, None)
    \/ \E sb \in {StrategySubject}, rt \in OneOf(4..5) :
            SubmitFeedback(sb.content_id, sb.content_type, sb.user_id, rt, None, None)
    \/ \E ct \in SummaryFilterArgs : GetFeedbackSummary(ct)
    \/ \E th \in Thresholds : GetLowRatedContent(th)

\* The feedback handler with the issue counts of the summary: every issue
\* list for one content type and one list for another. The rating and the
\* comments, which the counts do not read, take one value.
NextIssues ==
    \/ \E sb \in {ContractSubject}, rt \in OneOf(1..5), si \in IssueListArgs :
            SubmitFeedback(sb.content_id, sb.content_type, sb.user_id, rt, None, si)
    \/ \E sb \in {StrategySubject}, rt \in OneOf(1..5), si \in {Some(RepeatedIssues)} :
            SubmitFeedback(sb.content_id, sb.content_type, sb.user_id, rt, None, si)
    \/ \E ct \in SummaryFilterArgs : GetFeedbackSummary(ct)

\* The feedback handler with mark_addressed. The subject, the comments and
\* the issues of a submission take one value.
NextAddressed ==
    \/ Tick
    \/ \E sb \in OneOf(FeedbackSubjects), rt \in {2, 5} :
            SubmitFeedback(sb.content_id, sb.content_type, sb.user_id, rt, None, None)
    \/ \E id \in FeedbackIdArgs, fu \in FollowUps : MarkAddressed(id, fu)
    \/ \E id \in FeedbackIdArgs : GetFeedback(id)

\* The feedback handler with identify_improvement_areas. The clock moves only
\* inside submit_feedback.
NextImprovement ==
    \/ \E sm \in ImprovementSubmissions :
            SubmitFeedback(sm.subject.content_id, sm.subject.content_type,
                           sm.subject.user_id, sm.rating, sm.comments,
                           sm.specific_issues)
    \/ IdentifyImprovementAreas

\* The orchestrator over a database file that holds sample rows.
InitOrchestrator ==
    /\ now = 0
    /\ pending_approvals = <<>>
    /\ feedback_store = <<>>
    /\ feedback_counter = 0
    /\ call = [op |-> "none", raised |-> NoException, result |-> None]
    /\ ncalls = 0
    /\ db = SampleDatabase
    /\ events = <<>>
    /\ threads = <<>>   \* no thread is inside a call

NextOrchestrator ==
    \/ \E l \in LawyerIdArgs, kw \in ResearchKwargs : ResearchCaseLaw(l, kw)
    \/ \E l \in LawyerIdArgs, c \in ContractIdArgs : AnalyzeContract(l, c, NoKwargs)
    \/ \E l \in LawyerIdArgs : AssessCompliance(l, NoKwargs)
    \/ \E l \in LawyerIdArgs, ty \in DocumentTypes : DraftLegalDocument(l, ty, NoKwargs)
    \/ \E l \in LawyerIdArgs, c \in CaseIdArgs : DevelopLitigationStrategy(l, c, NoKwargs)

\* A database with one lawyer, case 1 with documents of the given types, each
\* created a day after the one before, and a contract of another case.
CaseDatabase(types) ==
    [EmptyDatabase EXCEPT
        !.lawyers = <<[id |-> 1, name |-> Some("A. Rao"), firm |-> Some("Rao LLP"),
                       practice_areas |-> Some("Contracts"),
                       jurisdiction |-> Some("NY")]>>,
        !.cases = <<[id |-> 1, title |-> Some("Rao v. Acme"), case_type |-> Some("Civil"),
                     status |-> Some("active"), lawyer_id |-> 1,
                     client_name |-> Some("Acme"),
                     case_summary |-> Some("breach of lease"),
                     key_issues |-> Some(Text("notice period", 13)),
                     practice_area |-> Some("Contracts")]>>,
        !.legal_documents =
            [i \in 1..Len(types) |->
                [id |-> i, document_type |-> Some(types[i]),
                 title |-> Some(Text("Exhibit", 7)), case_id |-> Some(1),
                 lawyer_id |-> 1, document_content |-> Some("text"),
                 status |-> Some("final"), creation_date |-> i]] \o
            <<[id |-> Len(types) + 1, document_type |-> Some("contract"),
               title |-> Some(Text("Other", 5)), case_id |-> Some(2),
               lawyer_id |-> 1, document_content |-> Some("text"),
               status |-> Some("final"), creation_date |-> Len(types) + 1]>>]

InitComprehensive ==
    /\ now = 0
    /\ pending_approvals = <<>>
    /\ feedback_store = <<>>
    /\ feedback_counter = 0
    /\ call = [op |-> "none", raised |-> NoException, result |-> None]
    /\ ncalls = 0
    \* the document types of the rows of the case, in the order of insertion
    /\ db \in {CaseDatabase(types) :
                 types \in {<<>>, <<"memo">>, <<"contract">>, <<"contract", "agreement">>,
                            <<"contract", "contract", "contract", "memo">>,
                            <<"contract", "contract", "contract", "contract">>,
                            <<"contract", "memo", "agreement", "contract">>,
                            <<"contract", "memo", "memo", "memo">>}}
    /\ events = <<>>
    /\ threads = <<>>   \* no thread is inside a call

NextComprehensive ==
    \E l \in LawyerIdArgs, c \in CaseIdArgs : ComprehensiveCaseAnalysis(l, c)

SpecComprehensive == InitComprehensive /\ [][NextComprehensive]_vars

\* The database layer called directly, on a new file.
NextDatabase ==
    \* a lawyer; one with the same bar number; one without a bar number; one
    \* without a name
    \/ \E lawyer_data \in
            {[name |-> Some("A. Rao"), bar_number |-> Some("NY-1"),
              jurisdiction |-> Some("NY")],
             [name |-> Some("B. Lee"), bar_number |-> Some("NY-1"),
              jurisdiction |-> Some("CA")],
             [name |-> Some("C. Diaz"), email |-> Some("diaz@firm.example")],
             [bar_number |-> Some("CA-7"), name |-> None]} :
          AddLawyer(lawyer_data)
    \* a case; one with the same case number; one without a case number
    \/ \E case_data \in
            {[case_number |-> Some("24-001"), title |-> Some("Rao v. Acme"),
              lawyer_id |-> Some(1)],
             [case_number |-> Some("24-001"), title |-> Some("Lee v. Acme"),
              lawyer_id |-> Some(2)],
             [title |-> Some("Diaz v. Acme"), lawyer_id |-> Some(1)]} :
          AddCase(case_data)
    \* the ids the first rows get, and one no row gets
    \/ \E id \in {1, 2, 99999} : GetLawyerById(id)
    \/ \E id \in {1, 2, 99999} : GetCaseById(id)

SpecDatabase == Init /\ [][NextDatabase]_vars

\* The state after construction, with the given threads about to make calls.
InitThreads(callers) ==
    /\ now = 0
    /\ pending_approvals = <<>>
    /\ feedback_store = <<>>
    /\ feedback_counter = 0
    /\ call = [op |-> "none", raised |-> NoException, result |-> None]
    /\ ncalls = 0
    /\ db = EmptyDatabase
    /\ events = <<>>
    /\ threads = [t \in callers |-> Idle]

\* One thread inside approve or reject while requests are made and read.
NextConcurrentApproval ==
    \/ Tick
    \/ \E ty \in ApprovalTypes, c \in Contents, m \in Metadatas, r \in OneOf(Requesters) :
            RequestApproval(ty, c, m, r)
    \/ \E t \in ApprovalThreads, id \in ApprovalIdArgs, a \in Approvers,
          cm \in OneOf(CommentArgs), md \in ModificationArgs :
            BeginApprove(t, id, a, cm, md)
    \/ \E t \in ApprovalThreads, id \in ApprovalIdArgs, a \in Approvers, rs \in Reasons :
            BeginReject(t, id, a, rs)
    \/ \E t \in ApprovalThreads : Assign(t)
    \/ \E t \in ApprovalThreads : ReturnDecision(t)
    \/ \E r \in OneOf(RequesterFilterArgs) : GetPendingApprovals(r)
    \/ \E id \in ApprovalIdArgs : GetApprovalStatus(id)
    \/ \E r \in OneOf(Requesters) : GetApprovalHistory(r)

SpecConcurrentApproval == InitThreads(ApprovalThreads) /\ [][NextConcurrentApproval]_vars

\* Two threads inside submit_feedback.
NextConcurrentFeedback ==
    \/ Tick
    \/ \E t \in FeedbackThreads, sb \in FeedbackSubjects, rt \in {0, 2, 5} :
            LoadCounter(t, sb.content_id, sb.content_type, sb.user_id, rt, None, None)
    \/ \E t \in FeedbackThreads : StoreCounter(t)
    \/ \E t \in FeedbackThreads : BuildFeedbackId(t)
    \/ \E t \in FeedbackThreads : StoreFeedback(t)

SpecConcurrentFeedback == InitThreads(FeedbackThreads) /\ [][NextConcurrentFeedback]_vars

\* The approval manager alone, the feedback handler alone, and both in one process.
SpecApproval == Init /\ [][NextApproval]_vars
SpecFeedback == Init /\ [][NextFeedback]_vars
SpecListing == Init /\ [][NextListing]_vars
SpecSummary == Init /\ [][NextSummary]_vars
SpecIssues == Init /\ [][NextIssues]_vars
SpecAddressed == Init /\ [][NextAddressed]_vars
SpecImprovement == Init /\ [][NextImprovement]_vars
SpecOrchestrator == InitOrchestrator /\ [][NextOrchestrator]_vars

Next == NextApproval \/ NextFeedback \/ NextListing
Spec == Init /\ [][Next]_vars

\* ------------------------------------------------------------- claims
\* The value of an optional key of a dict record: Some(value), or None when
\* the key is absent.
Field(r, k) == IF k \in DOMAIN r THEN Some(r[k]) ELSE None

\* The step is a request_approval call.
IsRequestApprovalStep == call'.op = "request_approval" /\ ncalls' # ncalls

\* The step is an approve or reject call that found its request.
IsDecisionStep == call'.op \in {"approve", "reject"} /\ ncalls' # ncalls

\* C1: the id request_approval returns is not yet a key of the store when the
\* call is made, and every record stored before the call is still there
\* unchanged after it.
C1_ReturnedIdIsFresh ==
    [][IsRequestApprovalStep =>
          /\ call'.result \notin DictKeys(pending_approvals)
          /\ \A i \in 1..Len(pending_approvals) :
                pending_approvals'[i] = pending_approvals[i]]_vars

\* C2: once a request is approved or rejected, no later approve or reject
\* changes its status, approved_by, approved_at, comments or rejection_reason.
C2_DecisionIsFinal ==
    [][IsDecisionStep =>
          \A i \in 1..Len(pending_approvals) :
              LET old == pending_approvals[i]
                  new == pending_approvals'[i]
              IN  old.status \in {"approved", "rejected"} =>
                      /\ new.status = old.status
                      /\ new.approved_by = old.approved_by
                      /\ new.approved_at = old.approved_at
                      /\ new.comments = old.comments
                      /\ Field(new, "rejection_reason") = Field(old, "rejection_reason")]_vars

\* Where a formula uses an action as a step predicate, the name of the
\* operation the step ran comes first, so the action is compared only with
\* steps of its own operation, whose results have the same shape.

\* C3: approve and reject with an id that is not in the store raise ValueError
\* and leave the store as it was.
C3_UnknownIdRaisesAndKeepsStore ==
    [][/\ \A id \in ApprovalIdArgs, a \in Approvers, cm \in CommentArgs,
             md \in ModificationArgs :
              (id \notin DictKeys(pending_approvals) /\ (call'.op = "approve" /\ Approve(id, a, cm, md))) =>
                  /\ call' = [op |-> "approve", raised |-> "ValueError", result |-> None]
                  /\ pending_approvals' = pending_approvals
       /\ \A id \in ApprovalIdArgs, a \in Approvers, rs \in Reasons :
              (id \notin DictKeys(pending_approvals) /\ (call'.op = "reject" /\ Reject(id, a, rs))) =>
                  /\ call' = [op |-> "reject", raised |-> "ValueError", result |-> None]
                  /\ pending_approvals' = pending_approvals]_vars

\* C3 witness: an approve or reject has raised ValueError on a store that holds
\* requests.
C3_Witness ==
    /\ call.op \in {"approve", "reject"}
    /\ call.raised = "ValueError"
    /\ Len(pending_approvals) >= 2

\* C4: a record carries a rejection_reason only if its status is rejected.
C4_ReasonOnlyWhenRejected ==
    \A i \in 1..Len(pending_approvals) :
        "rejection_reason" \in DOMAIN pending_approvals[i] =>
            pending_approvals[i].status = "rejected"

\* C5: a successful approve returns a record with status approved, the given
\* approver and comments, content_modified true and modified_content the
\* given text when modifications are supplied, content_modified false when
\* they are not.
C5_ApproveStoresModifications ==
    [][\A id \in ApprovalIdArgs, a \in Approvers, cm \in CommentArgs,
          md \in ModificationArgs :
          (id \in DictKeys(pending_approvals) /\ (call'.op = "approve" /\ Approve(id, a, cm, md))) =>
              LET r == call'.result
              IN  /\ call'.raised = NoException
                  /\ r.status = "approved"
                  /\ r.approved_by = Some(a)
                  /\ r.comments = cm
                  /\ md # None =>
                        /\ Field(r, "content_modified") = Some(TRUE)
                        /\ Field(r, "modified_content") = Some(md)
                  /\ md = None => Field(r, "content_modified") = Some(FALSE)]_vars

\* C6: right after request_approval returns an id, the requester's history
\* holds a pending record with that id and the supplied type, content,
\* metadata and requester, with approved_by, approved_at and comments None,
\* and get_approval_status gives pending for the id; and in every state every
\* pending record has approved_by, approved_at and comments None.
C6_NewRequestIsPendingAndBlank ==
    /\ [](\A i \in 1..Len(pending_approvals) :
            LET a == pending_approvals[i]
            IN  a.status = "pending" =>
                    a.approved_by = None /\ a.approved_at = None /\ a.comments = None)
    /\ [][\A ty \in ApprovalTypes, c \in Contents, m \in Metadatas, r \in Requesters :
            (call'.op = "request_approval" /\ RequestApproval(ty, c, m, r)) =>
                LET id == call'.result
                    history == get_approval_history(pending_approvals', r)
                IN  /\ get_approval_status(pending_approvals', id) = "pending"
                    /\ \E i \in 1..Len(history) :
                          /\ history[i].id = id
                          /\ history[i].status = "pending"
                          /\ history[i].type = ty
                          /\ history[i].content = c
                          /\ history[i].metadata = m
                          /\ history[i].requester_id = r
                          /\ history[i].approved_by = None
                          /\ history[i].approved_at = None
                          /\ history[i].comments = None]_vars

\* C6 witness: request_approval has just returned, on a store that also holds
\* a request already decided.
C6_Witness ==
    /\ call.op = "request_approval"
    /\ \E i \in 1..Len(pending_approvals) : pending_approvals[i].id = call.result
    /\ \E i \in 1..Len(pending_approvals) : pending_approvals[i].status # "pending"

\* C7: get_pending_approvals() returns exactly the pending records, and
\* get_pending_approvals(requester_id) exactly the pending records of that
\* requester, for every integer requester_id.
C7_PendingListing ==
    \A rf \in RequesterFilterArgs :
        LET got == get_pending_approvals(pending_approvals, rf)
            want == {pending_approvals[i] : i \in
                        {j \in 1..Len(pending_approvals) :
                            /\ pending_approvals[j].status = "pending"
                            /\ rf # None => pending_approvals[j].requester_id = rf[1]}}
        IN  /\ {got[i] : i \in 1..Len(got)} = want
            /\ Len(got) = Cardinality(want)

\* got holds each record of store whose field at key f is v once and no other
\* record, with the values at key k never increasing along it.
IsNewestFirstListing(got, store, f, v, k) ==
    LET want == {store[i] : i \in {j \in 1..Len(store) : store[j][f] = v}}
    IN  /\ {got[i] : i \in 1..Len(got)} = want
        /\ Len(got) = Cardinality(want)
        /\ \A i, j \in 1..Len(got) : i < j => got[i][k] >= got[j][k]

ListingOps ==
    {"get_approval_history", "get_content_feedback", "get_user_feedback",
     "get_feedback_by_type"}

\* C8: get_approval_history(requester) returns exactly the requests of that
\* requester, of any status, newest first; get_content_feedback,
\* get_user_feedback and get_feedback_by_type return exactly the feedback
\* records with the given key, newest first; and none of the four changes a
\* store.
C8_ListingsNewestFirst ==
    /\ [](/\ \A r \in Requesters :
                IsNewestFirstListing(get_approval_history(pending_approvals, r),
                    pending_approvals, "requester_id", r, "created_at")
          /\ \A cid \in ContentIds :
                IsNewestFirstListing(get_content_feedback(feedback_store, cid),
                    feedback_store, "content_id", cid, "submitted_at")
          /\ \A u \in Users :
                IsNewestFirstListing(get_user_feedback(feedback_store, u),
                    feedback_store, "user_id", u, "submitted_at")
          /\ \A ct \in ContentTypes :
                IsNewestFirstListing(get_feedback_by_type(feedback_store, ct),
                    feedback_store, "content_type", ct, "submitted_at"))
    /\ [][call'.op \in ListingOps =>
            UNCHANGED <<pending_approvals, feedback_store, feedback_counter>>]_vars

\* C8 witness: a listing has returned two records created at different times
\* in the reverse of the order the store holds them, while the store also
\* holds a record the listing left out.
C8_Witness ==
    /\ call.op \in ListingOps
    /\ Len(call.result) = 2
    /\ LET store == IF call.op = "get_approval_history"
                    THEN pending_approvals ELSE feedback_store
           k == IF call.op = "get_approval_history"
                THEN "created_at" ELSE "submitted_at"
       IN  /\ Len(store) = 3
           /\ call.result[1][k] > call.result[2][k]
           /\ \E i, j \in 1..Len(store) :
                 i < j /\ store[i] = call.result[2] /\ store[j] = call.result[1]

\* The step is a submit_feedback call.
IsSubmitFeedbackStep == feedback_counter' # feedback_counter

\* C9: submit_feedback with a rating outside 1..5 raises ValueError and stores
\* nothing; with a rating in 1..5 it returns an id and stores the rating as
\* given; so every stored rating is in 1..5.
C9_RatingIsValidated ==
    /\ [](\A i \in 1..Len(feedback_store) : feedback_store[i].rating \in 1..5)
    /\ [][\A sb \in FeedbackSubjects, rt \in Ratings,
            cm \in FeedbackCommentArgs, si \in IssueArgs :
            (call'.op = "submit_feedback" /\ SubmitFeedback(sb.content_id, sb.content_type, sb.user_id, rt, cm, si)) =>
                IF rt \in 1..5
                THEN /\ call'.raised = NoException
                     /\ Len(feedback_store') = Len(feedback_store) + 1
                     /\ \E i \in 1..Len(feedback_store') :
                           /\ feedback_store'[i].id = call'.result
                           /\ feedback_store'[i].rating = rt
                ELSE /\ call'.raised = "ValueError"
                     /\ feedback_store' = feedback_store]_vars

\* C9 witness: a submission has raised ValueError while the store holds a
\* record rated 1 or 5.
C9_Witness ==
    /\ call.op = "submit_feedback"
    /\ call.raised = "ValueError"
    /\ \E i \in 1..Len(feedback_store) : feedback_store[i].rating \in {1, 5}

\* C10: the ids of successful submissions are pairwise different, their
\* counter parts grow strictly in call order, also across failed submissions,
\* and a submission leaves every record stored before it untouched.
C10_FeedbackIdsGrow ==
    /\ [](\A i, j \in 1..Len(feedback_store) :
            i < j => /\ feedback_store[i].id # feedback_store[j].id
                     /\ feedback_store[i].id[1] < feedback_store[j].id[1])
    /\ [][IsSubmitFeedbackStep =>
            /\ feedback_counter' > feedback_counter
            /\ \A i \in 1..Len(feedback_store) : feedback_store'[i] = feedback_store[i]
            /\ call'.raised = NoException =>
                  /\ Len(feedback_store') = Len(feedback_store) + 1
                  /\ feedback_store'[Len(feedback_store')].id = call'.result
                  /\ call'.result \notin DictKeys(feedback_store)
                  /\ call'.result[1] > feedback_counter
                  /\ \A i \in 1..Len(feedback_store) :
                        feedback_store[i].id[1] < call'.result[1]]_vars

\* C10 witness: two submissions are stored with a failed one between them, all
\* within one second.
C10_Witness ==
    /\ Len(feedback_store) = 2
    /\ feedback_store[2].id[1] > feedback_store[1].id[1] + 1
    /\ feedback_store[2].id[2] = feedback_store[1].id[2]

\* The positions in store of the records a summary with the filter
\* content_type is about: all of them without a filter, else those of that
\* content type.
ScopeOf(store, content_type) ==
    {i \in 1..Len(store) :
        content_type = None \/ store[i].content_type = content_type[1]}

\* A store of one record per rating of `ratings`, in that order.
StoreRated(ratings) ==
    [i \in 1..Len(ratings) |->
        Feedback(FeedbackId(i, 0), "contract_lease", "contract_analysis", 1,
                 ratings[i], None, None, 0)]

\* C11: get_feedback_summary over no record (an empty store, or a filter no
\* record matches) raises nothing and returns total_feedback 0,
\* average_rating 0, percentage_positive 0 and empty rating_distribution and
\* most_common_issues.
C11_EmptySummaryIsZero ==
    [][\A ct \in SummaryFilterArgs :
          ((call'.op = "get_feedback_summary" /\ GetFeedbackSummary(ct)) /\ ScopeOf(feedback_store, ct) = {}) =>
              LET r == call'.result
              IN  /\ call'.raised = NoException
                  /\ r.total_feedback = 0
                  /\ r.average_rating = 0
                  /\ r.rating_distribution = <<>>
                  /\ r.most_common_issues = <<>>
                  /\ Field(r, "percentage_positive") = Some(0)]_vars

\* The summary r states the statistics of the records of store at the
\* positions S: their number, the count of each rating 1..5, the mean rating
\* and the percentage rated 4 or more, the last two as exact fractions.
IsSummaryOf(r, store, S) ==
    LET n == Cardinality(S)
        c(x) == Cardinality({i \in S : store[i].rating = x})
    IN  /\ r.total_feedback = n
        /\ DOMAIN r.rating_distribution = 1..5
        /\ \A x \in 1..5 : r.rating_distribution[x] = c(x)
        /\ Sum(r.rating_distribution) = n
        /\ r.average_rating.den # 0
        /\ r.average_rating.num * n =
              (c(1) + 2 * c(2) + 3 * c(3) + 4 * c(4) + 5 * c(5)) * r.average_rating.den
        /\ r.percentage_positive.den # 0
        /\ r.percentage_positive.num * n =
              100 * (c(4) + c(5)) * r.percentage_positive.den

\* In every state, over a non-empty scope get_feedback_summary returns the
\* statistics of the records in scope.
SummaryIsOfScope ==
    \A ct \in SummaryFilterArgs :
        LET S == ScopeOf(feedback_store, ct)
        IN  S # {} =>
              IsSummaryOf(get_feedback_summary(feedback_store, ct), feedback_store, S)

\* The summary of the ratings 5,5,4,2,1 has the mean 17/5, the counts
\* 1,1,0,1,2 and the given percentage of ratings of 4 or more.
ExampleSummaryHas(percentage) ==
    LET r == get_feedback_summary(StoreRated(<<5, 5, 4, 2, 1>>), None)
    IN  /\ r.total_feedback = 5
        /\ r.average_rating.num * 5 = 17 * r.average_rating.den
        /\ r.rating_distribution = <<1, 1, 0, 1, 2>>
        /\ r.percentage_positive.num = percentage * r.percentage_positive.den

\* C12 as stated: over a non-empty scope get_feedback_summary returns the
\* number of records, the count of each rating 1..5, the unrounded mean rating
\* and the percentage of records rated 4 or more; the ratings 5,5,4,2,1 give
\* 17/5, 40 and the counts 1,1,0,1,2.
C12_AsStated ==
    /\ SummaryIsOfScope
    /\ ExampleSummaryHas(40)

\* C12, amended: the same, and the ratings 5,5,4,2,1, three of which are 4 or
\* more, give 17/5, 60 and the counts 1,1,0,1,2.
C12_SummaryStatistics ==
    /\ [](SummaryIsOfScope /\ ExampleSummaryHas(60))
    /\ [][\A ct \in SummaryFilterArgs :
            (call'.op = "get_feedback_summary" /\ GetFeedbackSummary(ct)) =>
                /\ call' = Returned("get_feedback_summary",
                                    get_feedback_summary(feedback_store, ct))
                /\ feedback_store' = feedback_store]_vars

\* C12 witness: a summary filtered by content type has counted two of the
\* three stored records, one of them rated 4 or more, and their mean rating
\* is not a whole number.
C12_Witness ==
    /\ call.op = "get_feedback_summary"
    /\ Len(feedback_store) = 3
    /\ call.result.total_feedback = 2
    /\ call.result.average_rating.num % call.result.average_rating.den # 0
    /\ call.result.percentage_positive.num = 100

\* C14: for every threshold get_low_rated_content returns exactly the stored
\* records rated below it, none rated equal to it, by rating from the lowest
\* up; with the default threshold over the ratings 5,2,1,3,4 it returns the
\* records rated 1,2.
C14_LowRatedBelowThreshold ==
    /\ [](\A th \in -1..7 :
            LET got == get_low_rated_content(feedback_store, th)
                want == {i \in 1..Len(feedback_store) : feedback_store[i].rating < th}
            IN  /\ Len(got) = Cardinality(want)
                /\ Range(got) = {feedback_store[i] : i \in want}
                /\ \A i, j \in 1..Len(got) : i < j => got[i].rating <= got[j].rating)
    /\ [](Column(get_low_rated_content(StoreRated(<<5, 2, 1, 3, 4>>), DefaultThreshold),
                 "rating") = <<1, 2>>)
    /\ [][\A th \in Thresholds :
            (call'.op = "get_low_rated_content" /\ GetLowRatedContent(th)) =>
                /\ call' = Returned("get_low_rated_content",
                                    get_low_rated_content(feedback_store, th))
                /\ feedback_store' = feedback_store]_vars

\* C14 witness: get_low_rated_content has returned the records rated 1 and 2,
\* stored in the other order, and left out a record rated 3.
C14_Witness ==
    /\ call.op = "get_low_rated_content"
    /\ Len(call.result) = 2
    /\ call.result[1].rating = 1
    /\ call.result[2].rating = 2
    /\ Len(feedback_store) = 3
    /\ feedback_store[1] = call.result[2]
    /\ \E i \in 1..Len(feedback_store) : feedback_store[i].rating = 3

\* The issue labels of the records of store at the positions S.
LabelsOf(store, S) == UNION {Range(store[i].specific_issues) : i \in S}

\* How many times the label occurs in the specific_issues lists of the
\* records of store at the positions S.
Occurrences(store, S, label) ==
    Cardinality({p \in S \X (1..TopN) :
                    /\ p[2] <= Len(store[p[1]].specific_issues)
                    /\ store[p[1]].specific_issues[p[2]] = label})

\* C13: over a non-empty scope most_common_issues has at most 5 pairs of a
\* label and a count, with different labels, each count the number of
\* occurrences of the label in the specific_issues lists in scope, counts
\* never increasing along the list, and no label left out counted more often
\* than a label in the list.
C13_MostCommonIssues ==
    /\ [](\A ct \in SummaryFilterArgs :
            LET S == ScopeOf(feedback_store, ct)
                top == get_feedback_summary(feedback_store, ct).most_common_issues
                included == {top[i][1] : i \in 1..Len(top)}
            IN  S # {} =>
                  /\ Len(top) <= 5
                  /\ \A i, j \in 1..Len(top) : i # j => top[i][1] # top[j][1]
                  /\ \A i \in 1..Len(top) :
                        /\ Len(top[i]) = 2
                        /\ top[i][1] \in LabelsOf(feedback_store, S)
                        /\ top[i][2] = Occurrences(feedback_store, S, top[i][1])
                  /\ \A i, j \in 1..Len(top) : i < j => top[i][2] >= top[j][2]
                  /\ \A label \in LabelsOf(feedback_store, S) \ included :
                        \A i \in 1..Len(top) :
                            Occurrences(feedback_store, S, label) <= top[i][2])
    /\ [][\A ct \in SummaryFilterArgs :
            (call'.op = "get_feedback_summary" /\ GetFeedbackSummary(ct)) =>
                call'.result = get_feedback_summary(feedback_store, ct)]_vars

\* C13 witness: a summary over three records of two content types, which
\* name more than five labels, has returned five issues, the first counted
\* three times across two records and the last once.
C13_Witness ==
    /\ call.op = "get_feedback_summary"
    /\ call.result.total_feedback = 3
    /\ Cardinality(Range(Column(feedback_store, "content_type"))) = 2
    /\ Cardinality(LabelsOf(feedback_store, 1..Len(feedback_store))) > 5
    /\ Len(call.result.most_common_issues) = 5
    /\ call.result.most_common_issues[1] = <<"vague", 3>>
    /\ call.result.most_common_issues[5][2] = 1

\* C15: mark_addressed with an id that is not in the store returns False,
\* raises nothing and leaves the store as it was.
C15_UnknownIdReturnsFalse ==
    [][\A id \in FeedbackIdArgs, fu \in FollowUps :
          (id \notin DictKeys(feedback_store) /\ (call'.op = "mark_addressed" /\ MarkAddressed(id, fu))) =>
              /\ call'.raised = NoException
              /\ call'.result = FALSE
              /\ Len(feedback_store') = Len(feedback_store)
              /\ feedback_store' = feedback_store]_vars

\* C15 witness: mark_addressed has returned False on a store that holds an
\* addressed record and one that is not.
C15_Witness ==
    /\ call.op = "mark_addressed"
    /\ call.result = FALSE
    /\ \E i, j \in 1..Len(feedback_store) :
          feedback_store[i].addressed /\ ~feedback_store[j].addressed

\* The keys of a feedback record that are set at submission and stay.
SubmittedKeys ==
    {"id", "content_id", "content_type", "user_id", "rating", "comments",
     "specific_issues", "submitted_at"}

\* C16: no submit_feedback or mark_addressed call changes a stored record's
\* id, content_id, content_type, user_id, rating, comments, specific_issues
\* or submitted_at, or turns addressed from true to false; mark_addressed
\* with a known id returns True and changes only addressed, follow_up and
\* addressed_at of that record.
C16_OnlyAddressedFieldsChange ==
    /\ [][\A i \in 1..Len(feedback_store) :
            /\ i <= Len(feedback_store')
            /\ \A k \in SubmittedKeys : feedback_store'[i][k] = feedback_store[i][k]
            /\ feedback_store[i].addressed => feedback_store'[i].addressed]_vars
    /\ [][\A id \in FeedbackIdArgs, fu \in FollowUps :
            (id \in DictKeys(feedback_store) /\ (call'.op = "mark_addressed" /\ MarkAddressed(id, fu))) =>
                /\ call' = [op |-> "mark_addressed", raised |-> NoException,
                            result |-> TRUE]
                /\ Len(feedback_store') = Len(feedback_store)
                /\ \A i \in 1..Len(feedback_store) :
                      LET old == feedback_store[i]
                          new == feedback_store'[i]
                      IN  IF old.id = id
                          THEN /\ new.addressed = TRUE
                               /\ new.follow_up = Some(fu)
                               /\ Field(new, "addressed_at") = Some(now)
                               /\ DOMAIN new = DOMAIN old \cup {"addressed_at"}
                               /\ \A k \in DOMAIN old \ {"addressed", "follow_up", "addressed_at"} :
                                     new[k] = old[k]
                          ELSE new = old]_vars

\* C16 witness: after one submission and two mark_addressed calls on it, the
\* second at a later time, the record is addressed and another record was
\* never stored.
C16_Witness ==
    /\ call.op = "mark_addressed"
    /\ call.result = TRUE
    /\ feedback_counter = 1
    /\ ncalls = 3
    /\ Len(feedback_store) = 1
    /\ feedback_store[1].addressed
    /\ feedback_store[1].addressed_at > feedback_store[1].submitted_at

\* The positions in store of the records of the content type rated 2 or less.
LowPositions(store, content_type) ==
    {i \in 1..Len(store) :
        store[i].content_type = content_type /\ store[i].rating <= 2}

\* The non-empty comments and the issue labels of the records of store at the
\* positions S.
EntriesOf(store, S) ==
    LabelsOf(store, S)
    \cup {store[i].comments[1] : i \in {j \in S : store[j].comments \notin {None, Some("")}}}

\* areas is a result the claim allows for the store: its keys are the content
\* types with a record rated 2 or less, and each value is a list of at most 5
\* different entries of the low-rated records of its key.
IsImprovementAreasOf(areas, store) ==
    /\ DOMAIN areas =
          {store[i].content_type : i \in {j \in 1..Len(store) : store[j].rating <= 2}}
    /\ \A ct \in DOMAIN areas :
          LET xs == areas[ct]
          IN  /\ Len(xs) <= 5
              /\ \A i, j \in 1..Len(xs) : i # j => xs[i] # xs[j]
              /\ \A i \in 1..Len(xs) :
                    xs[i] \in EntriesOf(store, LowPositions(store, ct))

\* C17: identify_improvement_areas returns a dict whose keys are exactly the
\* content types with a stored record rated 2 or less (none for no such
\* record), each value with at most 5 entries, no entry twice, and every
\* entry a non-empty comment or an issue label of a record of that content
\* type rated 2 or less.
C17_ImprovementAreas ==
    [][call'.op = "identify_improvement_areas" =>
          /\ call'.raised = NoException
          /\ IsImprovementAreasOf(call'.result, feedback_store)
          /\ feedback_store' = feedback_store]_vars

\* C17 witness: identify_improvement_areas has returned five of the six
\* entries of one content type, whose records also hold an empty comment and
\* a record rated 3 or more.
C17_Witness ==
    /\ call.op = "identify_improvement_areas"
    /\ \E ct \in DOMAIN call.result :
          /\ Len(call.result[ct]) = 5
          /\ Cardinality(EntriesOf(feedback_store, LowPositions(feedback_store, ct))) = 6
          /\ \E i \in 1..Len(feedback_store) : feedback_store[i].comments = Some("")

\* The ids of the lawyers the database holds.
KnownLawyers == {db.lawyers[i].id : i \in 1..Len(db.lawyers)}

\* The positions in evs of the events of a kind.
EventsOfKind(evs, kind) == {i \in 1..Len(evs) : evs[i].kind = kind}

\* The step raises ValueError before any agent call or insert and leaves the
\* database as it was.
FailsClosed(op) ==
    /\ call' = [op |-> op, raised |-> "ValueError", result |-> None]
    /\ EventsOfKind(events', "generate") = {}
    /\ EventsOfKind(events', "insert") = {}
    /\ db' = db

\* C18: research_case_law with a lawyer_id the database does not hold raises
\* ValueError, and in that call no agent is called and no research session
\* is written.
C18_UnknownLawyerStopsResearch ==
    [][\A l \in LawyerIdArgs, kw \in ResearchKwargs :
          (l \notin KnownLawyers /\ (call'.op = "research_case_law" /\ ResearchCaseLaw(l, kw))) =>
              /\ FailsClosed("research_case_law")
              /\ db'.research_sessions = db.research_sessions]_vars

\* C18 witness: research_case_law has raised ValueError after looking up a
\* lawyer, in a database that holds a lawyer and an earlier research session.
C18_Witness ==
    /\ call = [op |-> "research_case_law", raised |-> "ValueError", result |-> None]
    /\ Len(events) = 1
    /\ events[1].kind = "lookup"
    /\ events[1].id \notin KnownLawyers
    /\ KnownLawyers # {}
    /\ db.research_sessions # <<>>

\* C19: every operation called with a lawyer_id the database does not hold
\* raises ValueError before any agent call and writes nothing; so every
\* research session, analysis result and document row names a lawyer the
\* database holds.
C19_EveryTaskChecksLawyer ==
    /\ [](\A table \in {"research_sessions", "analysis_results", "legal_documents"} :
            \A i \in 1..Len(db[table]) : db[table][i].lawyer_id \in KnownLawyers)
    /\ [][\A l \in LawyerIdArgs \ KnownLawyers :
            /\ \A kw \in ResearchKwargs :
                  (call'.op = "research_case_law" /\ ResearchCaseLaw(l, kw)) => FailsClosed("research_case_law")
            /\ \A c \in ContractIdArgs :
                  (call'.op = "analyze_contract" /\ AnalyzeContract(l, c, NoKwargs)) => FailsClosed("analyze_contract")
            /\ (call'.op = "assess_compliance" /\ AssessCompliance(l, NoKwargs)) => FailsClosed("assess_compliance")
            /\ \A ty \in DocumentTypes :
                  (call'.op = "draft_legal_document" /\ DraftLegalDocument(l, ty, NoKwargs)) => FailsClosed("draft_legal_document")
            /\ \A c \in CaseIdArgs :
                  (call'.op = "develop_litigation_strategy" /\ DevelopLitigationStrategy(l, c, NoKwargs)) =>
                      FailsClosed("develop_litigation_strategy")]_vars

\* The five operations that run one task.
SingleTaskOps ==
    {"research_case_law", "analyze_contract", "assess_compliance",
     "draft_legal_document", "develop_litigation_strategy"}

\* The tables the orchestrator writes.
WrittenTables == {"research_sessions", "analysis_results", "legal_documents"}

\* The inserted row holds the text: as the detailed analysis, as the document
\* content, or, cut to 1000 characters, as the findings of a research session.
Carries(table, data, text) ==
    CASE table = "analysis_results" -> data.detailed_analysis = Some(text)
      [] table = "legal_documents" -> data.document_content = Some(text)
      [] table = "research_sessions" -> data.findings = Some(Slice(text, 1000))

RaisedFrom(evs, from) ==
    {i \in 1..Len(evs) : evs[i].kind = "raise" /\ evs[i].from = from}

\* C21: when the agent call of an operation returns and the insert that
\* follows raises, the operation raises nothing and returns the generated
\* text.
C21_InsertFailureIsSwallowed ==
    [][(call'.op \in SingleTaskOps /\ RaisedFrom(events', "insert") # {}) =>
          /\ call'.raised = NoException
          /\ call'.result \in Generations]_vars

\* C22: when the agent call of an operation raises, the operation raises that
\* exception, has called the agent once, has made no insert, and the database
\* is as it was.
C22_AgentFailurePropagates ==
    [][(call'.op \in SingleTaskOps /\ RaisedFrom(events', "generate") # {}) =>
          /\ RaisedFrom(events', "generate") = {Len(events')}
          /\ call'.raised = events'[Len(events')].exception
          /\ call'.raised # NoException
          /\ call'.result = None
          /\ EventsOfKind(events', "generate") = {Len(events') - 1}
          /\ EventsOfKind(events', "insert") = {}
          /\ db' = db]_vars

\* C22 witness: assess_compliance has raised the agent's exception after a
\* lookup and one agent call, in a database that holds rows written before.
C22_Witness ==
    /\ call = [op |-> "assess_compliance", raised |-> "Exception", result |-> None]
    /\ Len(events) = 3
    /\ events[1].kind = "lookup"
    /\ events[2].kind = "generate"
    /\ events[3] = RaiseEvent("generate", "Exception")
    /\ db.analysis_results # <<>>

\* C25: in research_case_law a jurisdiction the caller left out or passed as
\* None is replaced by the lawyer's stored jurisdiction, and one the caller
\* gave is kept, both in what the agent is given and in the row written.
C25_JurisdictionDefaultsToLawyer ==
    [][\A l \in LawyerIdArgs, kw \in ResearchKwargs :
          (/\ call'.op = "research_case_law"
           /\ ResearchCaseLaw(l, kw)
           /\ EventsOfKind(events', "generate") # {}) =>
              LET supplied == Get(kw, "jurisdiction", None)
                  expected == IF supplied = None
                              THEN RowOf(get_lawyer_by_id(db, l)).jurisdiction
                              ELSE supplied
              IN  \A i \in 1..Len(events') :
                      events'[i].kind \in {"generate", "insert"} =>
                          events'[i].data.jurisdiction = expected]_vars

\* The agent methods called, in the order of the calls.
MethodsCalled(evs) ==
    LET IsGenerate(ev) == ev.kind = "generate"
        calls == SelectSeq(evs, IsGenerate)
    IN  [i \in 1..Len(calls) |-> calls[i].method]

\* The place of an agent method in the chain.
ChainRank(method) ==
    CASE method = "research_precedents" -> 1
      [] method = "analyze_case_strategy" -> 2
      [] method = "analyze_contract" -> 3

\* The inserts that did not raise, in the order they were made.
CommittedInserts(evs) ==
    LET IsInsert(ev) == ev.kind = "insert"
        kept == IF RaisedFrom(evs, "insert") # {}
                THEN SubSeq(evs, 1, Len(evs) - 2)
                ELSE evs
    IN  SelectSeq(kept, IsInsert)

\* The database after the given inserts.
RECURSIVE AfterInserts(_, _)
AfterInserts(self, inserts) ==
    IF inserts = <<>> THEN self
    ELSE AfterInserts(execute_insert(self, Head(inserts).table, Head(inserts).data),
                      Tail(inserts))

\* C23: comprehensive_case_analysis calls the research agent, then the
\* strategy agent, then the contract agent; when a chained call raises, the
\* chain stops there, raises and returns no results, not even those it has;
\* and the rows the calls before it inserted stay in the database, so that a
\* strategy call that raises leaves the research session of the same chain
\* stored.
C23_ChainFailsWithoutRollback ==
    [][call'.op = "comprehensive_case_analysis" =>
          LET methods == MethodsCalled(events')
              raises == EventsOfKind(events', "raise")
          IN  /\ \A i, j \in 1..Len(methods) :
                    i < j => /\ ChainRank(methods[i]) <= ChainRank(methods[j])
                             /\ ChainRank(methods[i]) < 3 =>
                                    ChainRank(methods[i]) < ChainRank(methods[j])
              /\ methods # <<>> => methods[1] = "research_precedents"
              /\ Len(methods) >= 2 => methods[2] = "analyze_case_strategy"
              /\ raises \subseteq {Len(events')}
              /\ raises # {} =>
                    /\ call'.raised = events'[Len(events')].exception
                    /\ call'.raised # NoException
                    /\ call'.result = None
              /\ call'.raised = NoException =>
                    /\ raises = {}
                    /\ Len(methods) >= 2
                    /\ DOMAIN call'.result \in
                           {{"case_law_research", "litigation_strategy"},
                            {"case_law_research", "litigation_strategy",
                             "document_analyses"}}
              /\ db' = AfterInserts(db, CommittedInserts(events'))
              /\ \A table \in DOMAIN db :
                    SubSeq(db'[table], 1, Len(db[table])) = db[table]]_vars

\* C23 witness: the chain has raised the exception of the strategy agent, and
\* the research session its research call wrote is in the database.
C23_Witness ==
    /\ call = [op |-> "comprehensive_case_analysis", raised |-> "Exception",
               result |-> None]
    /\ MethodsCalled(events) = <<"research_precedents", "analyze_case_strategy">>
    /\ events[Len(events)] = RaiseEvent("generate", "Exception")
    /\ Len(CommittedInserts(events)) = 1
    /\ Len(db.research_sessions) = 1
    /\ db.research_sessions[1].findings = CommittedInserts(events)[1].data.findings
    /\ db.analysis_results = <<>>

\* The ids of the contracts a chain analysed, in the order of the calls.
ContractsAnalysed(evs) ==
    LET IsContractCall(ev) == ev.kind = "generate" /\ ev.method = "analyze_contract"
        IsDocumentLookup(ev) == ev.kind = "lookup" /\ ev.fn = "get_document_by_id"
        looked_up == SelectSeq(evs, IsDocumentLookup)
    IN  [i \in 1..Len(SelectSeq(evs, IsContractCall)) |-> looked_up[i].id]

\* C24: a comprehensive_case_analysis that returns has analysed the first
\* min(3, k) documents of type contract or agreement of the case, in the order
\* get_case_documents lists them, k being the number of such documents;
\* documents of other types do not count toward the three.
C24_FirstThreeContractsAnalysed ==
    [][(call'.op = "comprehensive_case_analysis" /\ call'.raised = NoException) =>
          LET case_id == events'[1].id
              contracts == SelectSeq(get_case_documents(db, case_id), IsContractType)
              expected == Prefix(contracts, 3)
          IN  /\ ContractsAnalysed(events') = [i \in 1..Len(expected) |-> expected[i].id]
              /\ Len(ContractsAnalysed(events')) = Min(3, Len(contracts))]_vars

\* The ids of the rows of a table.
RowIds(self, table) == {self[table][i].id : i \in 1..Len(self[table])}

\* C28: an add_lawyer or add_case that returns gives a positive id that no row
\* of the table had, the row with that id holds the values given, and the
\* rows before it are as they were; one that raises leaves the database as it
\* was; get_lawyer_by_id and get_case_by_id return the row with the id, or
\* None, without raising, when no row has it.
C28_InsertsAndLookups ==
    /\ [][call'.op \in {"add_lawyer", "add_case"} =>
            LET table == events'[1].table
                data == events'[1].data
            IN  IF call'.raised = NoException
                THEN LET id == call'.result
                         got == SelectById(db', table, id)
                     IN  /\ id > 0
                         /\ id \notin RowIds(db, table)
                         /\ got # None
                         /\ \A k \in DOMAIN data : got[1][k] = data[k]
                         /\ Len(db'[table]) = Len(db[table]) + 1
                         /\ SubSeq(db'[table], 1, Len(db[table])) = db[table]
                         /\ \A other \in DOMAIN db \ {table} : db'[other] = db[other]
                ELSE db' = db]_vars
    /\ [][call'.op \in {"get_lawyer_by_id", "get_case_by_id"} =>
            LET table == IF call'.op = "get_lawyer_by_id" THEN "lawyers" ELSE "cases"
                id == events'[1].id
            IN  /\ call'.raised = NoException
                /\ db' = db
                /\ IF id \in RowIds(db, table)
                   THEN /\ call'.result # None
                        /\ call'.result[1].id = id
                        /\ \E i \in 1..Len(db[table]) : db[table][i] = call'.result[1]
                   ELSE call'.result = None]_vars

\* C28 witness: add_lawyer has returned the id 2 for a row without a bar
\* number, in a database that holds a case.
C28_Witness ==
    /\ call.op = "add_lawyer"
    /\ call.raised = NoException
    /\ call.result = 2
    /\ Len(db.lawyers) = 2
    /\ "bar_number" \notin DOMAIN db.lawyers[2]
    /\ db.cases # <<>>

\* C29: a submit_feedback that raises for its rating leaves the store and the
\* counter as they were.
C29_FailedSubmissionChangesNothing ==
    [][\A sb \in FeedbackSubjects, rt \in Ratings \ (1..5),
          cm \in FeedbackCommentArgs, si \in IssueArgs :
          (call'.op = "submit_feedback" /\ SubmitFeedback(sb.content_id, sb.content_type, sb.user_id, rt, cm, si)) =>
              /\ call'.raised = "ValueError"
              /\ feedback_store' = feedback_store
              /\ feedback_counter' = feedback_counter]_vars

\* C30: in every state a request holds a modified_content exactly when its
\* content_modified is True.
C30_ModifiedContentIffFlag ==
    \A i \in 1..Len(pending_approvals) :
        LET a == pending_approvals[i]
        IN  ("modified_content" \in DOMAIN a /\ a.modified_content # None)
                <=> Field(a, "content_modified") = Some(TRUE)

\* C26: while a thread is inside approve or reject, every record that
\* get_pending_approvals or get_approval_history hands to another thread has
\* status approved or rejected exactly when its approved_by and approved_at
\* are set.
C26_ReaderSeesWholeDecisions ==
    call.op \in {"get_pending_approvals", "get_approval_history"} =>
        \A i \in 1..Len(call.result) :
            LET a == call.result[i]
            IN  a.status \in {"approved", "rejected"}
                    <=> (a.approved_by # None /\ a.approved_at # None)

\* C27: when two threads have both returned from submit_feedback, the ids
\* they got differ and the store holds a record under each.
C27_ConcurrentSubmissionsKept ==
    \A t, u \in FeedbackThreads :
        (/\ t # u
         /\ threads[t].pc = "done" /\ threads[t].raised = NoException
         /\ threads[u].pc = "done" /\ threads[u].raised = NoException) =>
            /\ threads[t].result # threads[u].result
            /\ {threads[t].result, threads[u].result} \subseteq DictKeys(feedback_store)
            /\ Len(feedback_store) = 2

====
